---- MODULE Spec2Model ----
(***************************************************************************)
(* Model of the deterministic core of willi-agent: the baseline EDIFACT    *)
(* parser emitted by generate_edifact_parser_module (delimiter detection,  *)
(* segment and element splitting, the UNH/UNT checks) and the conformance  *)
(* tester test_edifact_parser_module that runs a parser module over        *)
(* samples and mutated samples, and the field annotator explain of the     *)
(* baseline module.                                                        *)
(*                                                                         *)
(* A JavaScript string is a sequence of one-character strings.  A thrown   *)
(* Error is a record [threw |-> TRUE, message |-> m].                      *)
(***************************************************************************)
EXTENDS Integers, Sequences, FiniteSets, TLC

VARIABLES
    input,      \* ParserSpec: the argument of the call under study
    format,     \* the message type the baseline module was generated for
    out,        \* ParserSpec: the function applied and what it returned
    moduleKind, \* Spec: which module the tester was handed
    samples,    \* Spec: the samples argument of the tester
    pc,         \* Spec: position inside the tester's handler
    idx,        \* Spec: index of the sample the current loop is at
    results,    \* Spec: the tester's results array
    calls,      \* Spec: what the module did in the call behind each entry of results
    ret,        \* Spec: the value the tester returned
    explainCalls \* ExplainSpec: the calls of explain made so far, in order

vars == <<input, format, out, moduleKind, samples, pc, idx, results, calls, ret, explainCalls>>

-----------------------------------------------------------------------------
(* Bounds of the model *)

MaxLen == 4
MaxSegs == 2
MaxUna == 6
MaxSamples == 3
MaxCalls == 3

-----------------------------------------------------------------------------
(* JavaScript string primitives *)

Min(a, b) == IF a < b THEN a ELSE b

Whitespace == {" ", "\n", "\r", "\t"}

Digits == {"0", "1", "2", "3", "4", "5", "6", "7", "8", "9"}

Lowers == <<"a", "b", "c", "d", "e", "f", "g", "h", "i", "j", "k", "l", "m", "n", "o", "p", "q", "r", "s", "t", "u", "v", "w", "x", "y", "z">>

Uppers == <<"A", "B", "C", "D", "E", "F", "G", "H", "I", "J", "K", "L", "M", "N", "O", "P", "Q", "R", "S", "T", "U", "V", "W", "X", "Y", "Z">>

upperChar(c) ==
    IF \E k \in 1..26 : Lowers[k] = c
    THEN Uppers[CHOOSE k \in 1..26 : Lowers[k] = c]
    ELSE c

toUpperCase(s) == [k \in 1..Len(s) |-> upperChar(s[k])]

\* s.slice(a, b) and s.slice(a) for 0 <= a
slice(s, a, b) == SubSeq(s, a + 1, Min(b, Len(s)))

sliceFrom(s, a) == SubSeq(s, a + 1, Len(s))

startsWith(s, p) == Len(s) >= Len(p) /\ SubSeq(s, 1, Len(p)) = p

\* s.trim(): the text between the first and the last non-white-space character
trim(s) ==
    LET solid == {k \in 1..Len(s) : s[k] \notin Whitespace} IN
    IF solid = {} THEN <<>>
    ELSE SubSeq(s, CHOOSE a \in solid : \A k \in solid : a <= k,
                   CHOOSE b \in solid : \A k \in solid : b >= k)

\* s.trimStart()
trimStart(s) ==
    LET solid == {k \in 1..Len(s) : s[k] \notin Whitespace} IN
    IF solid = {} THEN <<>>
    ELSE SubSeq(s, CHOOSE a \in solid : \A k \in solid : a <= k, Len(s))

\* s.replace(/\r?\n/g, ''): every line feed goes, with a carriage return
\* right before it
stripLineBreaks(s) ==
    LET dropped(k) == \/ s[k] = "\n"
                      \/ s[k] = "\r" /\ k < Len(s) /\ s[k + 1] = "\n"
        kept == {k \in 1..Len(s) : ~dropped(k)}
        \* the index in s of the n-th kept character
        nth(n) == CHOOSE k \in kept : Cardinality({j \in kept : j <= k}) = n
    IN  [n \in 1..Cardinality(kept) |-> s[nth(n)]]

\* Number.isFinite(parseInt(s, 10)): leading white space and one sign are
\* skipped, then at least one decimal digit must follow.
parseIntIsFinite(s) ==
    LET t == trimStart(s)
        u == IF t # <<>> /\ Head(t) \in {"+", "-"} THEN Tail(t) ELSE t
    IN  u # <<>> /\ Head(u) \in Digits

\* segments.find(s => s.tag === tag): index of the first match, 0 if none
findTag(segments, tag) ==
    IF \E k \in 1..Len(segments) : segments[k].tag = tag
    THEN CHOOSE k \in 1..Len(segments) :
             /\ segments[k].tag = tag
             /\ \A j \in 1..(k - 1) : segments[j].tag # tag
    ELSE 0

\* segments.findLast(s => s.tag === tag): index of the last match, 0 if none
findLastTag(segments, tag) ==
    IF \E k \in 1..Len(segments) : segments[k].tag = tag
    THEN CHOOSE k \in 1..Len(segments) :
             /\ segments[k].tag = tag
             /\ \A j \in (k + 1)..Len(segments) : segments[j].tag # tag
    ELSE 0

-----------------------------------------------------------------------------
(* The baseline parser module (edifactParserGenerator.js, BASELINE_PARSER) *)

UNA == <<"U", "N", "A">>

DefaultDelimiters ==
    [componentSep |-> ":", dataSep |-> "+", releaseChar |-> "?", segTerm |-> "'"]

\* Mutant: the release character read from the decimal-mark position
detectDelimiters_decimalAsRelease(text) ==
    LET six == slice(text, 3, 9)
    IN  IF startsWith(text, UNA) /\ Len(six) = 6
        THEN [componentSep |-> six[1], dataSep |-> six[2],
              releaseChar |-> six[3], segTerm |-> six[6]]
        ELSE DefaultDelimiters

detectDelimiters(text) ==
    LET six == slice(text, 3, 9)
    IN  IF startsWith(text, UNA) /\ Len(six) = 6
        THEN [componentSep |-> six[1], dataSep |-> six[2],
              releaseChar |-> six[4], segTerm |-> six[6]]
        ELSE DefaultDelimiters

\* Mutant: the trimmed buffer is pushed even when it is empty
pushTrimmed_keepEmpty(segments, cur) == Append(segments, trim(cur))

pushTrimmed(segments, cur) ==
    IF trim(cur) # <<>> THEN Append(segments, trim(cur)) ELSE segments

\* The state of a scanner: the token being built, whether the previous
\* character was an active release character, and the tokens emitted so far
ScanStart == [cur |-> <<>>, released |-> FALSE, tokens |-> <<>>]

\* The body of the loop of splitSegments, for the character ch
splitSegmentsStep(st, ch, segTerm, releaseChar) ==
    IF st.released
    THEN [st EXCEPT !.cur = Append(@, ch), !.released = FALSE]
    ELSE IF ch = releaseChar
    THEN [st EXCEPT !.released = TRUE]
    ELSE IF ch = segTerm
    THEN [cur |-> <<>>, released |-> FALSE, tokens |-> pushTrimmed(st.tokens, st.cur)]
    ELSE [st EXCEPT !.cur = Append(@, ch)]

RECURSIVE splitSegmentsLoop(_, _, _, _, _, _)
\* The loop of splitSegments run for i = lo..hi (zero-based lo-1..hi-1) from
\* state st; the range is halved so that the evaluation stays shallow
splitSegmentsLoop(text, segTerm, releaseChar, st, lo, hi) ==
    IF lo > hi THEN st
    ELSE IF lo = hi THEN splitSegmentsStep(st, text[lo], segTerm, releaseChar)
    ELSE LET mid == (lo + hi) \div 2
             half == splitSegmentsLoop(text, segTerm, releaseChar, st, lo, mid)
         IN  \* the test has the first half evaluated before the second is entered
             IF half.released \in BOOLEAN
             THEN splitSegmentsLoop(text, segTerm, releaseChar, half, mid + 1, hi)
             ELSE half

\* Mutant: what follows the last terminator is not emitted
splitSegments_dropsUnterminated(text, segTerm, releaseChar) ==
    splitSegmentsLoop(text, segTerm, releaseChar, ScanStart, 1, Len(text)).tokens

splitSegments(text, segTerm, releaseChar) ==
    LET end == splitSegmentsLoop(text, segTerm, releaseChar, ScanStart, 1, Len(text))
    IN  pushTrimmed(end.tokens, end.cur)

\* The body of the loop of splitElements, for the character ch
splitElementsStep(st, ch, sep, releaseChar) ==
    IF st.released
    THEN [st EXCEPT !.cur = Append(@, ch), !.released = FALSE]
    ELSE IF ch = releaseChar
    THEN [st EXCEPT !.released = TRUE]
    ELSE IF ch = sep
    THEN [cur |-> <<>>, released |-> FALSE, tokens |-> Append(st.tokens, st.cur)]
    ELSE [st EXCEPT !.cur = Append(@, ch)]

RECURSIVE splitElementsLoop(_, _, _, _, _, _)
\* The loop of splitElements run for i = lo..hi from state st
splitElementsLoop(str, sep, releaseChar, st, lo, hi) ==
    IF lo > hi THEN st
    ELSE IF lo = hi THEN splitElementsStep(st, str[lo], sep, releaseChar)
    ELSE LET mid == (lo + hi) \div 2
             half == splitElementsLoop(str, sep, releaseChar, st, lo, mid)
         IN  IF half.released \in BOOLEAN
             THEN splitElementsLoop(str, sep, releaseChar, half, mid + 1, hi)
             ELSE half

\* Mutant: empty tokens are filtered out of the result
splitElements_dropEmpty(str, sep, releaseChar) ==
    LET end == splitElementsLoop(str, sep, releaseChar, ScanStart, 1, Len(str))
    IN  SelectSeq(Append(end.tokens, end.cur), LAMBDA t : t # <<>>)

\* Mutant: the token after the last separator is not emitted
splitElements_noTrailing(str, sep, releaseChar) ==
    splitElementsLoop(str, sep, releaseChar, ScanStart, 1, Len(str)).tokens

splitElements(str, sep, releaseChar) ==
    LET end == splitElementsLoop(str, sep, releaseChar, ScanStart, 1, Len(str))
    IN  Append(end.tokens, end.cur)

\* .map(s => s.replace(/\r?\n/g, '').trim()).filter(Boolean)
cleanSegments(segs) ==
    SelectSeq([k \in 1..Len(segs) |-> trim(stripLineBreaks(segs[k]))],
              LAMBDA s : s # <<>>)

\* Mutant: the tag is taken as written
buildSegment_tagAsWritten(raw, pos, d) ==
    LET rest  == sliceFrom(raw, 3)
        elems == IF startsWith(rest, <<d.dataSep>>) THEN sliceFrom(rest, 1) ELSE rest
        els   == splitElements(elems, d.dataSep, d.releaseChar)
        data  == [e \in 1..Len(els) |->
                     splitElements(els[e], d.componentSep, d.releaseChar)]
    IN  [tag |-> slice(raw, 0, 3), position |-> pos, elements |-> data]

\* One iteration of the loop over segmentsRaw; pos is the value of ++pos
buildSegment(raw, pos, d) ==
    LET tag   == toUpperCase(slice(raw, 0, 3))
        rest  == sliceFrom(raw, 3)
        elems == IF startsWith(rest, <<d.dataSep>>) THEN sliceFrom(rest, 1) ELSE rest
        els   == splitElements(elems, d.dataSep, d.releaseChar)
        data  == [e \in 1..Len(els) |->
                     splitElements(els[e], d.componentSep, d.releaseChar)]
    IN  [tag |-> tag, position |-> pos, elements |-> data]

UNH == <<"U", "N", "H">>

UNT == <<"U", "N", "T">>

FIELD_VALUE_MISMATCH == <<"F", "I", "E", "L", "D", "_", "V", "A", "L", "U", "E", "_", "M", "I", "S", "M", "A", "T", "C", "H">>

UNT_SEGMENT_COUNT_MISSING == <<"U", "N", "T", "_", "S", "E", "G", "M", "E", "N", "T", "_", "C", "O", "U", "N", "T", "_", "M", "I", "S", "S", "I", "N", "G">>

\* (elements[e] || [])[0], e zero-based as in the source; <<>> stands for
\* undefined as well as for '' (both are falsy where the value is used)
firstComponentAt(seg, e) ==
    IF e + 1 <= Len(seg.elements) THEN seg.elements[e + 1][1] ELSE <<>>

unhErrors(segments, fmt) ==
    LET k == findTag(segments, UNH) IN
    IF k = 0 THEN <<>>
    ELSE LET type == firstComponentAt(segments[k], 2) IN
         IF type # <<>> /\ toUpperCase(type) # fmt
         THEN << [code |-> FIELD_VALUE_MISMATCH,
                  message |-> <<"M", "e", "s", "s", "a", "g", "e", " ", "t", "y", "p", "e", " ", "m", "u", "s", "t", " ", "b", "e", " ">> \o fmt,
                  segmentTag |-> UNH, position |-> segments[k].position,
                  field |-> <<"S", "0", "0", "9", ".", "0", "1">>, value |-> type] >>
         ELSE <<>>

untErrors(segments) ==
    LET k == findLastTag(segments, UNT) IN
    IF k = 0 THEN <<>>
    ELSE IF ~parseIntIsFinite(firstComponentAt(segments[k], 1))
         THEN << [code |-> UNT_SEGMENT_COUNT_MISSING,
                  message |-> <<"U", "N", "T", " ", "s", "e", "g", "m", "e", "n", "t", " ", "c", "o", "u", "n", "t", " ", "m", "i", "s", "s", "i", "n", "g", " ", "o", "r", " ", "i", "n", "v", "a", "l", "i", "d">>,
                  segmentTag |-> UNT, position |-> segments[k].position] >>
         ELSE <<>>

\* JavaScript values handed to parseEdifactToJson
JsNull == [type |-> "null"]

JsNumber(n) == [type |-> "number", n |-> n]

JsString(s) == [type |-> "string", s |-> s]

\* !edifactText || typeof edifactText !== 'string'
\* Mutant: white-space-only text is rejected as well
isUnusableInput_blankToo(v) ==
    v.type # "string" \/ trim(v.s) = <<>>

isUnusableInput(v) ==
    v.type # "string" \/ v.s = <<>>

EMPTY_INPUT == <<"E", "M", "P", "T", "Y", "_", "I", "N", "P", "U", "T">>

\* Mutant: the checks stop at the first one that fails
parseEdifactToJson_stopAtFirstError(edifactText, fmt) ==
    IF isUnusableInput(edifactText)
    THEN [threw |-> TRUE, message |-> EMPTY_INPUT]
    ELSE LET text == edifactText.s
             d == detectDelimiters(text)
             segmentsRaw == cleanSegments(splitSegments(text, d.segTerm, d.releaseChar))
             segments == [k \in 1..Len(segmentsRaw) |-> buildSegment(segmentsRaw[k], k, d)]
         IN  [threw |-> FALSE,
              json |-> [delimiters |-> d, segments |-> segments],
              errors |-> IF unhErrors(segments, fmt) # <<>>
                         THEN unhErrors(segments, fmt) ELSE untErrors(segments)]

\* Mutant: a service string advice is cut off before the text is tokenized
parseEdifactToJson_skipAdvice(edifactText, fmt) ==
    IF isUnusableInput(edifactText)
    THEN [threw |-> TRUE, message |-> EMPTY_INPUT]
    ELSE LET text == edifactText.s
             d == detectDelimiters(text)
             body == IF startsWith(text, UNA) /\ Len(text) >= 9
                     THEN sliceFrom(text, 9) ELSE text
             segmentsRaw == cleanSegments(splitSegments(body, d.segTerm, d.releaseChar))
             segments == [k \in 1..Len(segmentsRaw) |-> buildSegment(segmentsRaw[k], k, d)]
         IN  [threw |-> FALSE,
              json |-> [delimiters |-> d, segments |-> segments],
              errors |-> unhErrors(segments, fmt) \o untErrors(segments)]

parseEdifactToJson(edifactText, fmt) ==
    IF isUnusableInput(edifactText)
    THEN [threw |-> TRUE, message |-> EMPTY_INPUT]
    ELSE LET text == edifactText.s
             d == detectDelimiters(text)
             segmentsRaw == cleanSegments(splitSegments(text, d.segTerm, d.releaseChar))
             segments == [k \in 1..Len(segmentsRaw) |-> buildSegment(segmentsRaw[k], k, d)]
         IN  [threw |-> FALSE,
              json |-> [delimiters |-> d, segments |-> segments],
              errors |-> unhErrors(segments, fmt) \o untErrors(segments)]

-----------------------------------------------------------------------------
(* Inputs of the parser functions *)

RECURSIVE SeqsUpTo(_, _)
\* All sequences over S of length at most n
SeqsUpTo(S, n) ==
    IF n = 0 THEN {<<>>}
    ELSE LET shorter == SeqsUpTo(S, n - 1)
         IN  shorter \cup {Append(t, c) : t \in shorter, c \in S}

RECURSIVE FlattenRange(_, _, _)
\* The concatenation of ss[lo], ..., ss[hi]
FlattenRange(ss, lo, hi) ==
    IF lo > hi THEN <<>>
    ELSE IF lo = hi THEN ss[lo]
    ELSE LET mid == (lo + hi) \div 2
         IN  FlattenRange(ss, lo, mid) \o FlattenRange(ss, mid + 1, hi)

Flatten(ss) == FlattenRange(ss, 1, Len(ss))

APERAK == <<"A", "P", "E", "R", "A", "K">>

UTILMD == <<"U", "T", "I", "L", "M", "D">>

Formats == {APERAK, UTILMD}

\* The format argument is any string the caller supplies
CallerFormats == Formats \cup { <<"a", "p", "e", "r", "a", "k">> }

\* The sample message of the conformance scenario, on one line
SampleMessage ==
    <<"U", "N", "B", "+", "U", "N", "O", "C", ":", "3", "+", "S", ":", "R", "+", "R", ":", "S", "+", "2", "5", "0", "1", "0", "1", ":", "0", "1", "0", "1", "+", "R", "E", "F", "'", "U", "N", "H", "+", "1", "+", "A", "P", "E", "R", "A", "K", ":", "D", ":", "0", "7", "B", ":", "U", "N", ":", "2", ".", "1", "i", "'", "B", "G", "M", "+", "3", "1", "2", "+", "X", "'", "U", "N", "T", "+", "4", "+", "1", "'", "U", "N", "Z", "+", "1", "+", "R", "E", "F", "'">>

\* Raw segments from which messages are composed, each ended by "'"
SegmentPool ==
    { <<"U", "N", "H", "+", "1", "+", "A", "P", "E", "R", "A", "K", ":", "D", ":", "0", "7", "B", ":", "U", "N", ":", "2", ".", "1", "i", "'">>,
      <<"U", "N", "H", "+", "1", "+", "X", "+", "A", "P", "E", "R", "A", "K", "'">>,
      <<"U", "N", "H", "+", "1", "+", "A", "P", "E", "R", "A", "K", ":", "D", "+", "R", "E", "F", "'">>,
      <<"u", "n", "h", "+", "1", "+", "a", "p", "e", "r", "a", "k", ":", "D", "'">>,
      <<"U", "N", "H", "+", "1", "'">>,
      <<"U", "X", "H", "+", "1", "+", "A", "P", "E", "R", "A", "K", ":", "D", "'">>,
      <<"U", "N", "T", "+", "4", "+", "1", "'">>,
      <<"U", "N", "T", "+", "4", "'">>,
      <<"U", "N", "T", "+", "X", "+", "1", "'">>,
      <<"U", "N", "T", "+", "4", "+", "X", "'">>,
      <<"U", "N", "T", "'">>,
      <<"B", "G", "M", "+", "3", "1", "2", "+", "X", "'">> }

PoolTexts == {Flatten(ss) : ss \in SeqsUpTo(SegmentPool, MaxSegs)} \cup {SampleMessage}

CharAlphabet == {"A", "+", ":", "?", "'"}

CharTexts == SeqsUpTo(CharAlphabet, MaxLen)

\* A payload A<release><c>B in the first component of a BGM segment
EscapedPayloadText(c) == <<"B", "G", "M", "+", "A", "?">> \o <<c>> \o <<"B", "'">>

EscapeTexts == {EscapedPayloadText(c) : c \in {"'", "+", ":", "?"}}

BlankTexts == { <<" ">>, <<" ", "\n", " ">>, <<"\r", "\n">> }

OtherTexts == { <<"A", "'", " ", "'", "B">>, <<"A", "+", "+", "B">>, <<"B", "G", "M", "+", "A", "+", "+", "B", "'">>, <<"B", "G", "M", "+", "3", "1", "2", "+", "X">>, <<"X", "Y", "'">>, <<"U", "1", "H", "+", "1", "'">>, <<"U", "N", "T", "+", " ", "7", "'">>, <<"U", "N", "T", "+", "-", "1", "'">>,
                <<"U", "N", "H", "+", "1", "+", "U", "T", "I", "L", "M", "D", ":", "D", "'", "U", "N", "T", "+", "4", "+", "1", "'">> }

UnaChars == {":", "+", "#"}

UnaTexts ==
    {UNA \o t : t \in SeqsUpTo(UnaChars, MaxUna)}
        \cup { <<"U", "N", "A", ":", "+", ".", "?", " ", "'", "U", "N", "B", "+", "X", "'">>, <<"U", "N", "A", "*", "|", ".", "#", " ", "~", "U", "N", "H", "*", "1", "*", "A", "|", "B", "~">>, <<"U", "N", "B", "+", "U", "N", "A", ":", "+", ".", "?", " ", "'">>, <<"U", "N">>, <<"u", "n", "a", ":", "+", ".", "?", " ", "'">> }

\* Characters a service string advice may name as delimiters
AdviceChars == {":", "+", "?", "'", "A"}

\* UNA, six characters naming four delimiters, and a UNB segment written
\* with them
AdviceText(c, d, r, t) ==
    UNA \o <<c, d, ".", r, " ", t>> \o <<"U", "N", "B">> \o <<d, "X", t>>

AdviceTexts ==
    {AdviceText(c, d, r, t) : c, d, r, t \in AdviceChars}
        \cup { <<"U", "N", "A", ":", "+", "'", "?", "x", "'", "U", "N", "B", "+", "X", "'">>, <<"U", "N", "A", ":", "+", "?", "?", "?", "'", "U", "N", "B", "+", "X", "'">>, <<"U", "N", "A", ":", "+", ".", "?", " ", "'">> }

StringInputs ==
    {JsString(t) : t \in CharTexts \cup EscapeTexts \cup BlankTexts \cup OtherTexts
                          \cup UnaTexts \cup AdviceTexts}

MessageInputs == {JsString(t) : t \in PoolTexts}

NonStringInputs == {JsNull, JsNumber(0), JsNumber(5)}

-----------------------------------------------------------------------------
(* The tester's state while a parser function is studied alone *)

NoCall == [fn |-> "none"]

NoReturn == [returned |-> FALSE]

TesterIdle ==
    /\ moduleKind = "none"
    /\ samples = <<>>
    /\ pc = "idle"
    /\ idx = 0
    /\ results = <<>>
    /\ calls = <<>>
    /\ ret = NoReturn

testerVars == <<moduleKind, samples, pc, idx, results, calls, ret>>

-----------------------------------------------------------------------------
(* ParserSpec: one call of a function of the baseline module *)

ParserInit ==
    /\ \/ input \in StringInputs \cup NonStringInputs /\ format = APERAK
       \/ input \in MessageInputs /\ format \in CallerFormats
    /\ out = NoCall
    /\ TesterIdle
    /\ explainCalls = <<>>

CallParse ==
    /\ out = NoCall
    /\ out' = [fn |-> "parseEdifactToJson", res |-> parseEdifactToJson(input, format)]
    /\ UNCHANGED <<input, format, testerVars, explainCalls>>

CallDetectDelimiters ==
    /\ out = NoCall
    /\ input.type = "string"
    /\ out' = [fn |-> "detectDelimiters", res |-> detectDelimiters(input.s)]
    /\ UNCHANGED <<input, format, testerVars, explainCalls>>

CallSplitSegments ==
    /\ out = NoCall
    /\ input.type = "string"
    /\ out' = [fn |-> "splitSegments",
               res |-> splitSegments(input.s, DefaultDelimiters.segTerm,
                                     DefaultDelimiters.releaseChar)]
    /\ UNCHANGED <<input, format, testerVars, explainCalls>>

\* The separators and release characters splitElements is studied with; a
\* DelimiterSet holds distinct characters
SplitSeparators == {"+", ":"}

SplitReleaseChars == {"?", "'"}

CallSplitElements ==
    /\ out = NoCall
    /\ input.type = "string"
    /\ \E sep \in SplitSeparators, rel \in SplitReleaseChars :
           out' = [fn |-> "splitElements", sep |-> sep, releaseChar |-> rel,
                   res |-> splitElements(input.s, sep, rel)]
    /\ UNCHANGED <<input, format, testerVars, explainCalls>>

-----------------------------------------------------------------------------
(* The conformance tester (edifactTester.js) *)

\* JavaScript values a parser module can hand back to the tester
JsUndefined == [type |-> "undefined"]

JsArray(items) == [type |-> "array", items |-> items]

\* An entry of an errors array, an object with a code property
ErrorEntry(code) == [type |-> "object", code |-> code]

\* The object a parse call resolved to, seen as the tester reads it: its own
\* keys and its errors property
ParseValue(keys, errors) == [type |-> "object", keys |-> keys, errors |-> errors]

Returned(value) == [threw |-> FALSE, value |-> value]

Thrown(message) == [threw |-> TRUE, message |-> message]

\* mod.parseEdifactToJson of the baseline module, as the tester calls it
baselineParse(text, fmt) ==
    LET r == parseEdifactToJson(JsString(text), fmt) IN
    IF r.threw THEN Thrown(r.message)
    ELSE Returned(ParseValue(<< <<"j", "s", "o", "n">>, <<"e", "r", "r", "o", "r", "s">> >>,
             JsArray([k \in 1..Len(r.errors) |-> ErrorEntry(JsString(r.errors[k].code))])))

\* mod.explain of the baseline module applied to what its parse returned:
\* it copies the argument and maps over parsed.json.segments with optional
\* chaining throughout, and has no throw statement
baselineExplain(parsed) == Returned(parsed)

\* s.replace(/\+\+/g, '+?+')
\* matches are taken left to right and do not overlap, so a match starts at
\* a + followed by a + with an even number of + right before it
\* Mutant: the empty element is removed, '++' becomes '+'
escapeEmptyElements_dropPlaceholder(s) ==
    LET plusesBefore(i) ==
            Cardinality({k \in 1..(i - 1) : \A j \in k..(i - 1) : s[j] = "+"})
        matchAt(i) ==
            /\ i >= 1 /\ i < Len(s)
            /\ s[i] = "+" /\ s[i + 1] = "+"
            /\ plusesBefore(i) % 2 = 0
        piece(i) == IF matchAt(i - 1) THEN <<>> ELSE <<s[i]>>
    IN  Flatten([i \in 1..Len(s) |-> piece(i)])

escapeEmptyElements(s) ==
    LET plusesBefore(i) ==
            Cardinality({k \in 1..(i - 1) : \A j \in k..(i - 1) : s[j] = "+"})
        matchAt(i) ==
            /\ i >= 1 /\ i < Len(s)
            /\ s[i] = "+" /\ s[i + 1] = "+"
            /\ plusesBefore(i) % 2 = 0
        piece(i) == IF matchAt(i) THEN <<"+", "?", "+">>
                    ELSE IF matchAt(i - 1) THEN <<>>
                    ELSE <<s[i]>>
    IN  Flatten([i \in 1..Len(s) |-> piece(i)])

\* s.replace(/^UNH/gm, 'UXH'): with the m flag ^ matches at the start of the
\* text and after a line terminator; only the middle letter changes
corruptHeaderTags(s) ==
    [i \in 1..Len(s) |->
        IF /\ s[i] = "N"
           /\ i >= 2 /\ i + 1 <= Len(s)
           /\ s[i - 1] = "U" /\ s[i + 1] = "H"
           /\ (i = 2 \/ s[i - 2] \in {"\n", "\r"})
        THEN "X" ELSE s[i]]

glitch(s) == corruptHeaderTags(escapeEmptyElements(s))

StructuralCodePatterns ==
    { <<"U", "N", "K", "N", "O", "W", "N", "_", "S", "E", "G", "M", "E", "N", "T">>, <<"M", "A", "L", "F", "O", "R", "M", "E", "D", "_", "S", "E", "G", "M", "E", "N", "T", "_", "T", "A", "G">>, <<"I", "N", "V", "A", "L", "I", "D", "_", "S", "E", "G", "M", "E", "N", "T", "_", "T", "A", "G">>,
      <<"U", "N", "H", "_", "O", "U", "T", "_", "O", "F", "_", "S", "E", "Q", "U", "E", "N", "C", "E">>, <<"S", "E", "G", "M", "E", "N", "T", "_", "O", "U", "T", "_", "O", "F", "_", "M", "E", "S", "S", "A", "G", "E", "_", "S", "C", "O", "P", "E">> }

\* pattern occurs somewhere in s
includes(s, pattern) ==
    \E k \in 0..(Len(s) - Len(pattern)) : SubSeq(s, k + 1, k + Len(pattern)) = pattern

\* typeof e?.code === 'string' && /UNKNOWN_SEGMENT|...|SEGMENT_OUT_OF_MESSAGE_SCOPE/.test(e.code)
\* Mutant: the code must equal one of the alternatives
isStructuralCode_exact(e) ==
    /\ e.type = "object"
    /\ e.code.type = "string"
    /\ e.code.s \in StructuralCodePatterns

isStructuralCode(e) ==
    /\ e.type = "object"
    /\ e.code.type = "string"
    /\ \E p \in StructuralCodePatterns : includes(e.code.s, p)

\* Array.isArray(res?.errors) ? res.errors : []
errorsArrayOf(res) ==
    IF res.type = "object" /\ res.errors.type = "array" THEN res.errors.items ELSE <<>>

detected(res) ==
    LET errs == errorsArrayOf(res) IN \E k \in 1..Len(errs) : isStructuralCode(errs[k])

MutatedSuffix == <<" ", "(", "m", "u", "t", "a", "t", "e", "d", ")">>

NotDetectedMessage == <<"P", "a", "r", "s", "e", "r", " ", "d", "i", "d", " ", "n", "o", "t", " ", "d", "e", "t", "e", "c", "t", " ", "m", "a", "l", "f", "o", "r", "m", "e", "d", " ", "s", "e", "g", "m", "e", "n", "t", " ", "t", "a", "g">>

\* The entry the mutated loop records for sample s, given what parse did
mutatedEntry(s, parsed) ==
    IF parsed.threw THEN [name |-> s.name \o MutatedSuffix, ok |-> TRUE]
    ELSE IF detected(parsed.value) THEN [name |-> s.name \o MutatedSuffix, ok |-> TRUE]
    ELSE [name |-> s.name \o MutatedSuffix, ok |-> FALSE, error |-> NotDetectedMessage]

\* Object.keys(parsed || {}).slice(0, 10)
parsedSummary(value) == IF value.type = "object" THEN slice(value.keys, 0, 10) ELSE <<>>

\* Mutant: a parse result that reports errors fails the sample
happyEntry_failsOnErrors(s, parsed, explained) ==
    IF parsed.threw THEN [name |-> s.name, ok |-> FALSE, error |-> parsed.message]
    ELSE IF explained.threw THEN [name |-> s.name, ok |-> FALSE, error |-> explained.message]
    ELSE IF errorsArrayOf(parsed.value) # <<>>
    THEN [name |-> s.name, ok |-> FALSE, error |-> <<"P", "a", "r", "s", "e", "r", " ", "r", "e", "p", "o", "r", "t", "e", "d", " ", "e", "r", "r", "o", "r", "s">>]
    ELSE [name |-> s.name, ok |-> TRUE, parsedSummary |-> parsedSummary(parsed.value)]

\* The entry the happy-path loop records for sample s, given what parse did
\* and, when parse returned, what explain did
happyEntry(s, parsed, explained) ==
    IF parsed.threw THEN [name |-> s.name, ok |-> FALSE, error |-> parsed.message]
    ELSE IF explained.threw THEN [name |-> s.name, ok |-> FALSE, error |-> explained.message]
    ELSE [name |-> s.name, ok |-> TRUE, parsedSummary |-> parsedSummary(parsed.value)]

\* Mutant: the first three samples are mutated
mutatedSamples_firstThree(ss) == slice(ss, 0, 3)

\* samples.slice(0, 2)
mutatedSamples(ss) == slice(ss, 0, 2)

\* Mutant: results.some(r => r.ok)
everyOk_some(rs) == \E k \in 1..Len(rs) : rs[k].ok

\* results.every(r => r.ok)
everyOk(rs) == \A k \in 1..Len(rs) : rs[k].ok

-----------------------------------------------------------------------------
(* Inputs of the tester *)

\* A message with one segment per line, an empty element and a UNT that
\* carries only its count
LinesMessage == <<"U", "N", "B", "+", "U", "N", "O", "C", ":", "3", "+", "+", "X", "'", "\n", "U", "N", "H", "+", "1", "+", "A", "P", "E", "R", "A", "K", ":", "D", ":", "0", "7", "B", ":", "U", "N", ":", "2", ".", "1", "i", "'", "\n", "U", "N", "T", "+", "3", "'">>

SamplePool ==
    { [name |-> <<"a", "p", "e", "r", "a", "k">>, text |-> SampleMessage],
      [name |-> <<"l", "i", "n", "e", "s">>, text |-> LinesMessage],
      [name |-> <<"e", "m", "p", "t", "y">>, text |-> <<>>] }

SampleLists == SeqsUpTo(SamplePool, MaxSamples)

\* What a module other than the baseline one does is not decided by the text
OtherSampleLists == SeqsUpTo({[name |-> <<"a", "p", "e", "r", "a", "k">>, text |-> SampleMessage]}, MaxSamples)

ModuleKinds == {"unloadable", "noExports", "baseline", "other"}

ImportFailedMessage == <<"M", "o", "d", "u", "l", "e", " ", "i", "m", "p", "o", "r", "t", " ", "f", "a", "i", "l", "e", "d", ":", " ", "S", "y", "n", "t", "a", "x", "E", "r", "r", "o", "r">>

MissingExportsMessage == <<"M", "o", "d", "u", "l", "e", " ", "d", "o", "e", "s", " ", "n", "o", "t", " ", "e", "x", "p", "o", "r", "t", " ", "p", "a", "r", "s", "e", "E", "d", "i", "f", "a", "c", "t", "T", "o", "J", "s", "o", "n", " ", "a", "n", "d", " ", "e", "x", "p", "l", "a", "i", "n">>

\* What the functions of a module other than the baseline one can do: the
\* values of the errors property it may return
OtherErrorsValues ==
    { JsUndefined,
      JsString(<<"I", "N", "V", "A", "L", "I", "D", "_", "S", "E", "G", "M", "E", "N", "T", "_", "T", "A", "G">>),
      JsArray(<<>>),
      JsArray(<< ErrorEntry(JsString(<<"F", "I", "E", "L", "D", "_", "V", "A", "L", "U", "E", "_", "M", "I", "S", "M", "A", "T", "C", "H">>)) >>),
      JsArray(<< ErrorEntry(JsString(<<"U", "N", "K", "N", "O", "W", "N", "_", "S", "E", "G", "M", "E", "N", "T">>)) >>),
      JsArray(<< ErrorEntry(JsString(<<"F", "I", "E", "L", "D", "_", "V", "A", "L", "U", "E", "_", "M", "I", "S", "M", "A", "T", "C", "H">>)),
                 ErrorEntry(JsString(<<"U", "N", "H", "_", "O", "U", "T", "_", "O", "F", "_", "S", "E", "Q", "U", "E", "N", "C", "E">>)) >>),
      JsArray(<< ErrorEntry(JsString(<<"U", "N", "K", "N", "O", "W", "N", "_", "S", "E", "G", "M", "E", "N", "T", "_", "T", "A", "G">>)) >>),
      JsArray(<< JsNull, ErrorEntry(JsNumber(7)), ErrorEntry(JsUndefined) >>) }

OtherParseOutcomes ==
    {Returned(ParseValue(<< <<"s", "e", "g", "m", "e", "n", "t", "s">>, <<"e", "r", "r", "o", "r", "s">> >>, ev)) : ev \in OtherErrorsValues}
        \cup {Returned(JsNull), Thrown(<<"N", "O", "_", "S", "E", "G", "M", "E", "N", "T", "S", "_", "F", "O", "U", "N", "D">>)}

OtherExplainOutcomes(parsed) ==
    {Returned(parsed), Thrown(<<"C", "a", "n", "n", "o", "t", " ", "r", "e", "a", "d", " ", "p", "r", "o", "p", "e", "r", "t", "i", "e", "s", " ", "o", "f", " ", "u", "n", "d", "e", "f", "i", "n", "e", "d">>)}

\* The outcomes of mod.parseEdifactToJson(text) for the module under test
ParseOutcomes(kind, text, fmt) ==
    IF kind = "baseline" THEN {baselineParse(text, fmt)} ELSE OtherParseOutcomes

\* The outcomes of mod.explain(parsed)
ExplainOutcomes(kind, parsed) ==
    IF kind = "baseline" THEN {baselineExplain(parsed)} ELSE OtherExplainOutcomes(parsed)

NotCalled == [threw |-> FALSE, called |-> FALSE]

\* What is remembered of the calls behind a happy-path entry: whether each
\* threw, and with what message
thrownOnly(outcome) ==
    IF outcome.threw THEN outcome ELSE [threw |-> FALSE]

\* Whether a parse call returned a result whose errors array is non-empty
reportsErrors(outcome) ==
    ~outcome.threw /\ errorsArrayOf(outcome.value) # <<>>

-----------------------------------------------------------------------------
(* Spec: one invocation of test_edifact_parser_module *)

Init ==
    /\ moduleKind \in ModuleKinds
    /\ samples \in (IF moduleKind = "other" THEN OtherSampleLists ELSE SampleLists)
    /\ format \in (IF moduleKind = "baseline" THEN Formats ELSE {APERAK})
    /\ pc = "import"
    /\ idx = 0
    /\ results = <<>>
    /\ calls = <<>>
    /\ ret = NoReturn
    /\ input = JsNull
    /\ out = NoCall
    /\ explainCalls = <<>>

\* Lines 12-20: write the module to a temporary file and import it
ImportModule ==
    /\ pc = "import"
    /\ IF moduleKind = "unloadable"
       THEN /\ ret' = [returned |-> TRUE, success |-> FALSE, error |-> ImportFailedMessage]
            /\ pc' = "returned"
       ELSE /\ pc' = "exports"
            /\ UNCHANGED ret
    /\ UNCHANGED <<moduleKind, samples, format, idx, results, calls, input, out, explainCalls>>

\* Mutant: the samples are run whatever the module exports
CheckExports_runsAnyway ==
    /\ pc = "exports"
    /\ pc' = (IF Len(samples) = 0 THEN "mutated" ELSE "happy")
    /\ UNCHANGED <<moduleKind, samples, format, idx, results, calls, ret, input, out,
                   explainCalls>>

\* Lines 21-23: both exports must be functions
CheckExports ==
    /\ pc = "exports"
    /\ IF moduleKind = "noExports"
       THEN /\ ret' = [returned |-> TRUE, success |-> FALSE, error |-> MissingExportsMessage]
            /\ pc' = "returned"
       ELSE /\ pc' = (IF Len(samples) = 0 THEN "mutated" ELSE "happy")
            /\ UNCHANGED ret
    /\ UNCHANGED <<moduleKind, samples, format, idx, results, calls, input, out, explainCalls>>

\* Lines 25-33: one iteration of the loop over all samples
RunSample ==
    /\ pc = "happy"
    /\ idx < Len(samples)
    /\ LET s == samples[idx + 1] IN
       \E parsed \in ParseOutcomes(moduleKind, s.text, format) :
       \E explained \in (IF parsed.threw THEN {NotCalled}
                         ELSE ExplainOutcomes(moduleKind, parsed.value)) :
           /\ results' = Append(results, happyEntry(s, parsed, explained))
           /\ calls' = Append(calls, [text |-> s.text, parse |-> thrownOnly(parsed),
                                      explain |-> thrownOnly(explained),
                                      reported |-> reportsErrors(parsed)])
    /\ IF idx + 1 < Len(samples)
       THEN idx' = idx + 1 /\ pc' = "happy"
       ELSE idx' = 0 /\ pc' = "mutated"
    /\ UNCHANGED <<moduleKind, samples, format, ret, input, out, explainCalls>>

\* Lines 36-53: one iteration of the loop over the mutated samples
RunMutated ==
    /\ pc = "mutated"
    /\ idx < Len(mutatedSamples(samples))
    /\ LET s == mutatedSamples(samples)[idx + 1] IN
       \E parsed \in ParseOutcomes(moduleKind, glitch(s.text), format) :
           /\ results' = Append(results, mutatedEntry(s, parsed))
           /\ calls' = Append(calls, [text |-> glitch(s.text), parse |-> parsed])
    /\ idx' = idx + 1
    /\ UNCHANGED <<moduleKind, samples, format, pc, ret, input, out, explainCalls>>

\* Lines 54-55: the verdict
ReturnResults ==
    /\ pc = "mutated"
    /\ idx >= Len(mutatedSamples(samples))
    /\ ret' = [returned |-> TRUE, success |-> everyOk(results), results |-> results]
    /\ pc' = "returned"
    /\ UNCHANGED <<moduleKind, samples, format, idx, results, calls, input, out, explainCalls>>

Next ==
    \/ ImportModule
    \/ CheckExports
    \/ RunSample
    \/ RunMutated
    \/ ReturnResults

Spec == Init /\ [][Next]_vars

-----------------------------------------------------------------------------
(* Properties of the parser functions, checked under ParserSpec *)

Parsed == out.fn = "parseEdifactToJson" /\ ~out.res.threw

ErrorsWithCode(errors, code) ==
    {k \in 1..Len(errors) : errors[k].code = code}

\* C5: through segment, element and component splitting, a payload A?cB with
\* c the escaped terminator, data separator, component separator or release
\* character comes out as one segment whose single component is the literal
\* AcB: the value is never split at (or stripped of) the escaped character.
C5_EscapedCharacterKeptInOneComponent ==
    \A c \in {"'", "+", ":", "?"} :
        (out.fn = "parseEdifactToJson" /\ input = JsString(EscapedPayloadText(c)))
            => /\ ~out.res.threw
               /\ out.res.json.segments =
                      << [tag |-> <<"B", "G", "M">>, position |-> 1,
                          elements |-> << << <<"A", c, "B">> >> >>] >>

\* Length of the run of release characters that ends right before index i
ReleaseRunBefore(str, i, releaseChar) ==
    Cardinality({k \in 1..(i - 1) : \A j \in k..(i - 1) : str[j] = releaseChar})

\* Occurrences of sep not made literal by a release character: those with an
\* even number of release characters immediately before them
UnescapedSeparators(str, sep, releaseChar) ==
    {i \in 1..Len(str) :
        str[i] = sep /\ ReleaseRunBefore(str, i, releaseChar) % 2 = 0}

C7_EmptyInputIsTheOnlyThrow ==
    out.fn = "parseEdifactToJson"
        => /\ out.res.threw <=> (input.type # "string" \/ Len(input.s) = 0)
           /\ out.res.threw => out.res.message = EMPTY_INPUT
           /\ ~out.res.threw =>
                  /\ DOMAIN out.res.json = {"delimiters", "segments"}
                  /\ DOMAIN out.res.json.segments = 1..Len(out.res.json.segments)
                  /\ DOMAIN out.res.errors = 1..Len(out.res.errors)

C7_Witness ==
    /\ out.fn = "parseEdifactToJson"
    /\ input \in {JsString(t) : t \in BlankTexts}
    /\ ~out.res.threw
    /\ out.res.json.segments = <<>>
    /\ out.res.errors = <<>>

\* The message type carried by a UNH segment such as UNH+1+APERAK:D:07B:UN:2.1i:
\* the first component of the second data element, <<>> when there is none
MessageTypeOf(unh) ==
    IF Len(unh.elements) >= 2 THEN unh.elements[2][1] ELSE <<>>

\* C8: when the first UNH carries a message type that differs, whatever the
\* letter case, from the expected one, the error list holds exactly one
\* FIELD_VALUE_MISMATCH entry, for segment UNH at that segment's position.
C8_MismatchReportedOnceAtHeader ==
    Parsed =>
        LET segs == out.res.json.segments
            k == findTag(segs, UNH)
            hits == ErrorsWithCode(out.res.errors, FIELD_VALUE_MISMATCH)
        IN  (k # 0 /\ MessageTypeOf(segs[k]) # <<>>
                   /\ toUpperCase(MessageTypeOf(segs[k])) # toUpperCase(format))
                => /\ Cardinality(hits) = 1
                   /\ \A e \in hits :
                          /\ out.res.errors[e].segmentTag = UNH
                          /\ out.res.errors[e].position = segs[k].position

\* The segment count carried by a UNT segment such as UNT+4+1: the first
\* component of the first data element after the tag
SegmentCountOf(unt) == unt.elements[1][1]

\* C9: UNT_SEGMENT_COUNT_MISSING is emitted, with the last UNT segment's
\* position, exactly when that segment's count (the first data element after
\* the tag) is absent or not a number.
C9_CountMissingIffCountNotNumeric ==
    Parsed =>
        LET segs == out.res.json.segments
            k == findLastTag(segs, UNT)
            hits == ErrorsWithCode(out.res.errors, UNT_SEGMENT_COUNT_MISSING)
        IN  IF k # 0 /\ ~parseIntIsFinite(SegmentCountOf(segs[k]))
            THEN /\ Cardinality(hits) = 1
                 /\ \A e \in hits : out.res.errors[e].position = segs[k].position
            ELSE hits = {}

\* C10: for text that starts with UNA followed by at least six characters the
\* resolver returns characters 0, 1, 3 and 5 of those six as component
\* separator, data separator, release character and segment terminator; for
\* every other text it returns the defaults : + ? '
C10_DelimitersFromAdviceOrDefaults ==
    out.fn = "detectDelimiters"
        => LET t == input.s IN
           IF Len(t) >= 9 /\ <<t[1], t[2], t[3]>> = UNA
           THEN out.res = [componentSep |-> t[4], dataSep |-> t[5],
                           releaseChar |-> t[7], segTerm |-> t[9]]
           ELSE out.res = [componentSep |-> ":", dataSep |-> "+",
                           releaseChar |-> "?", segTerm |-> "'"]

C10_Witness ==
    /\ out.fn = "detectDelimiters"
    /\ input.s = <<"U", "N", "A", "*", "|", ".", "#", " ", "~", "U", "N", "H", "*", "1", "*", "A", "|", "B", "~">>
    /\ out.res = [componentSep |-> "*", dataSep |-> "|",
                  releaseChar |-> "#", segTerm |-> "~"]


\* C11: whatever the text, the four characters of the DelimiterSet the
\* resolver returns are pairwise distinct.
C11_DelimitersPairwiseDistinct ==
    out.fn = "detectDelimiters"
        => Cardinality({out.res.componentSep, out.res.dataSep,
                        out.res.releaseChar, out.res.segTerm}) = 4

\* The trimmed, non-empty raw segment strings of the text, in source order
RawSegmentsOf(text, d) ==
    cleanSegments(splitSegments(text, d.segTerm, d.releaseChar))

\* C12: the Document has one segment per raw segment string, the k-th in
\* source order has position k and as tag the uppercased first three
\* characters of its raw string; the sample message gives the five segments
\* UNB, UNH, BGM, UNT, UNZ at positions 1 to 5.
C12_PositionsConsecutiveAndTagsUppercased ==
    Parsed =>
        LET segs == out.res.json.segments
            raws == RawSegmentsOf(input.s, out.res.json.delimiters)
        IN  /\ Len(segs) = Len(raws)
            /\ \A k \in 1..Len(segs) :
                   /\ segs[k].position = k
                   /\ segs[k].tag = toUpperCase(SubSeq(raws[k], 1, Min(3, Len(raws[k]))))
            /\ input.s = SampleMessage =>
                   [k \in 1..Len(segs) |-> <<segs[k].tag, segs[k].position>>]
                       = << <<<<"U", "N", "B">>, 1>>, <<<<"U", "N", "H">>, 2>>, <<<<"B", "G", "M">>, 3>>,
                            <<<<"U", "N", "T">>, 4>>, <<<<"U", "N", "Z">>, 5>> >>

C12_Witness ==
    /\ Parsed
    /\ input.s = <<"u", "n", "h", "+", "1", "+", "a", "p", "e", "r", "a", "k", ":", "D", "'", "U", "X", "H", "+", "1", "+", "A", "P", "E", "R", "A", "K", ":", "D", "'">>
    /\ Len(out.res.json.segments) = 2
    /\ out.res.json.segments[1].tag = UNH
    /\ out.res.json.segments[2].position = 2

\* A tag that is not three letters, or the tag of no EDIFACT segment
AnomalousTag(tag) ==
    \/ Len(tag) < 3
    \/ \E k \in 1..Len(tag) : \A u \in 1..26 : Uppers[u] # tag[k]
    \/ tag = <<"U", "X", "H">>

\* C19: for every segment with an unknown tag or a malformed tag shape (UXH,
\* fewer than three characters, a non-letter character) the error list
\* returned next to the Document holds an entry for that segment.
C19_AnomalousTagReportedAsError ==
    Parsed =>
        \A k \in 1..Len(out.res.json.segments) :
            AnomalousTag(out.res.json.segments[k].tag)
                => \E e \in 1..Len(out.res.errors) : out.res.errors[e].position = k

\* C20: no FIELD_VALUE_MISMATCH is emitted when the message type of the first
\* UNH equals the expected type up to letter case, whatever the case of
\* either, nor when there is no UNH or the UNH carries no message type.
C20_NoMismatchWhenTypeMatchesUpToCase ==
    Parsed =>
        LET segs == out.res.json.segments
            k == findTag(segs, UNH)
            type == IF k = 0 THEN <<>> ELSE MessageTypeOf(segs[k])
        IN  (type = <<>> \/ toUpperCase(type) = toUpperCase(format))
                => ErrorsWithCode(out.res.errors, FIELD_VALUE_MISMATCH) = {}

-----------------------------------------------------------------------------
(* Properties of the conformance tester, checked under Spec *)

\* Index in results of the mutated entry of the k-th sample
MutatedIndex(k) == Len(samples) + k

\* The string codes of the entries of the errors array a parse call returned
\* (none when it threw, returned no object, or errors is not an array)
ReportedCodes(call) ==
    IF call.threw THEN {}
    ELSE IF call.value.type # "object" THEN {}
    ELSE IF call.value.errors.type # "array" THEN {}
    ELSE LET es == call.value.errors.items IN
         {es[k].code.s : k \in {j \in 1..Len(es) :
                                    es[j].type = "object" /\ es[j].code.type = "string"}}

\* C1: with the baseline module, the mutated run of each of the first two
\* samples that contains a UNH header is recorded with ok = true.
C1_BaselineFlagsCorruptedHeader ==
    (ret.returned /\ moduleKind = "baseline")
        => /\ "results" \in DOMAIN ret
           /\ \A k \in 1..Min(2, Len(samples)) :
                  includes(samples[k].text, UNH) => ret.results[MutatedIndex(k)].ok

\* C2 as stated: a mutated entry has ok = true exactly when parse threw or
\* the returned error list holds a code that is one of the five structural
\* codes; otherwise ok = false with the explanatory message.
C2_FlaggedIffThrowOrListedCode ==
    \A k \in 1..Len(results) :
        k > Len(samples) =>
            /\ results[k].ok <=>
                   \/ calls[k].parse.threw
                   \/ ReportedCodes(calls[k].parse) \cap StructuralCodePatterns # {}
            /\ ~results[k].ok => results[k].error = NotDetectedMessage

\* C2 as amended: a mutated entry has ok = true exactly when parse threw or
\* the returned error list holds a string code in which one of the five
\* structural codes occurs as a substring; otherwise ok = false with the
\* explanatory message.
C2_FlaggedIffThrowOrCodeContainsListed ==
    \A k \in 1..Len(results) :
        k > Len(samples) =>
            /\ results[k].ok <=>
                   \/ calls[k].parse.threw
                   \/ \E c \in ReportedCodes(calls[k].parse) :
                          \E p \in StructuralCodePatterns :
                              \E a \in 1..Len(c), b \in 1..Len(c) : SubSeq(c, a, b) = p
            /\ ~results[k].ok => results[k].error = NotDetectedMessage

C2_Witness ==
    \E k \in 1..Len(results) :
        /\ k > Len(samples)
        /\ ~calls[k].parse.threw
        /\ <<"U", "N", "K", "N", "O", "W", "N", "_", "S", "E", "G", "M", "E", "N", "T", "_", "T", "A", "G">> \in ReportedCodes(calls[k].parse)
        /\ results[k].ok
        /\ \E j \in 1..Len(results) :
               /\ j > Len(samples)
               /\ ReportedCodes(calls[j].parse) = { <<"F", "I", "E", "L", "D", "_", "V", "A", "L", "U", "E", "_", "M", "I", "S", "M", "A", "T", "C", "H">> }
               /\ ~results[j].ok

\* C3: whenever the tester returns a results list, success is the conjunction
\* of ok over all its entries: true exactly when no entry has ok = false.
C3_SuccessIsConjunctionOfOk ==
    (ret.returned /\ "results" \in DOMAIN ret)
        => /\ ret.success <=> (\A k \in 1..Len(ret.results) : ret.results[k].ok)
           /\ ret.success <=> ~(\E k \in 1..Len(ret.results) : ret.results[k].ok = FALSE)
           /\ ret.results = <<>> => ret.success

C3_Witness ==
    /\ ret.returned
    /\ "results" \in DOMAIN ret
    /\ ~ret.success
    /\ \E k \in 1..Len(ret.results) : k <= Len(samples) /\ ret.results[k].ok
    /\ \E k \in 1..Len(ret.results) : k > Len(samples) /\ ~ret.results[k].ok

\* C4: for a module that loads and exports both functions, the results hold
\* one happy-path entry per sample in sample order (ok = true, or ok = false
\* with the message of what parse or explain threw), then min(n, 2) mutated
\* entries for the first two samples, named with the suffix " (mutated)";
\* while the loops run, no sample is skipped.
C4_OneEntryPerSampleThenTwoMutated ==
    /\ pc = "happy" => Len(results) = idx
    /\ pc = "mutated" => Len(results) = Len(samples) + idx
    /\ (ret.returned /\ moduleKind \in {"baseline", "other"}) =>
           /\ "results" \in DOMAIN ret
           /\ Len(ret.results) = Len(samples) + Min(Len(samples), 2)
           /\ \A k \in 1..Len(samples) :
                  LET r == ret.results[k]
                      c == calls[k]
                      failed == c.parse.threw \/ c.explain.threw
                  IN  /\ r.name = samples[k].name
                      /\ c.text = samples[k].text
                      /\ r.ok <=> ~failed
                      /\ failed => r.error = (IF c.parse.threw THEN c.parse.message
                                              ELSE c.explain.message)
           /\ \A k \in 1..Min(Len(samples), 2) :
                  /\ ret.results[MutatedIndex(k)].name = samples[k].name \o <<" ", "(", "m", "u", "t", "a", "t", "e", "d", ")">>
                  /\ ret.results[MutatedIndex(k)].ok \in BOOLEAN

C4_Witness ==
    /\ ret.returned
    /\ "results" \in DOMAIN ret
    /\ Len(samples) = 3
    /\ Len(ret.results) = 5
    /\ ~ret.results[1].ok
    /\ ret.results[2].ok
    /\ ret.results[3].ok

-----------------------------------------------------------------------------
(* The field annotator: explain of the baseline module *)

\* An entry of the fields list of a mapping table; <<>> stands for a
\* property that is absent, null or the empty string (all falsy where the
\* annotator reads it), and for a codes list that is absent or empty
FieldWithCodes(path, name, description, codes) ==
    [path |-> path, name |-> name, description |-> description, codes |-> codes]

Field(path, name, description) == FieldWithCodes(path, name, description, <<>>)

Code(code, meaning) == [code |-> code, meaning |-> meaning]

\* The value of a mapping table under key tag
TableEntry(tag, segmentDescription, notes, fields) ==
    [tag |-> tag, segmentDescription |-> segmentDescription, notes |-> notes,
     fields |-> fields]

\* A mapping table is the sequence of its entries, one per key
defaultMapping ==
    << TableEntry(<<"U", "N", "H">>, <<"M", "e", "s", "s", "a", "g", "e", " ", "h", "e", "a", "d", "e", "r">>, <<>>,
         << Field(<<"U", "N", "H", "/", "0", "1", "/", "0", "1">>, <<"M", "e", "s", "s", "a", "g", "e", " ", "r", "e", "f", "e", "r", "e", "n", "c", "e", " ", "n", "u", "m", "b", "e", "r", " ", "(", "0", "0", "6", "2", ")">>,
                  <<"U", "n", "i", "q", "u", "e", " ", "m", "e", "s", "s", "a", "g", "e", " ", "r", "e", "f", "e", "r", "e", "n", "c", "e", " ", "a", "s", "s", "i", "g", "n", "e", "d", " ", "b", "y", " ", "t", "h", "e", " ", "s", "e", "n", "d", "e", "r">>),
            Field(<<"U", "N", "H", "/", "0", "2", "/", "0", "1">>, <<"M", "e", "s", "s", "a", "g", "e", " ", "t", "y", "p", "e", " ", "(", "0", "0", "6", "5", ")">>,
                  <<"I", "d", "e", "n", "t", "i", "f", "i", "e", "s", " ", "t", "h", "e", " ", "m", "e", "s", "s", "a", "g", "e", " ", "t", "y", "p", "e", ",", " ", "e", ".", "g", ".", ",", " ", "A", "P", "E", "R", "A", "K">>),
            Field(<<"U", "N", "H", "/", "0", "2", "/", "0", "2">>, <<"V", "e", "r", "s", "i", "o", "n", " ", "(", "0", "0", "5", "2", ")">>, <<"M", "e", "s", "s", "a", "g", "e", " ", "v", "e", "r", "s", "i", "o", "n", " ", "n", "u", "m", "b", "e", "r">>),
            Field(<<"U", "N", "H", "/", "0", "2", "/", "0", "3">>, <<"R", "e", "l", "e", "a", "s", "e", " ", "(", "0", "0", "5", "4", ")">>, <<"M", "e", "s", "s", "a", "g", "e", " ", "r", "e", "l", "e", "a", "s", "e", " ", "n", "u", "m", "b", "e", "r">>),
            Field(<<"U", "N", "H", "/", "0", "2", "/", "0", "4">>, <<"C", "o", "n", "t", "r", "o", "l", "l", "i", "n", "g", " ", "a", "g", "e", "n", "c", "y", " ", "(", "0", "0", "5", "1", ")">>,
                  <<"A", "g", "e", "n", "c", "y", " ", "c", "o", "n", "t", "r", "o", "l", "l", "i", "n", "g", " ", "t", "h", "e", " ", "m", "e", "s", "s", "a", "g", "e", ",", " ", "e", ".", "g", ".", ",", " ", "U", "N">>),
            Field(<<"U", "N", "H", "/", "0", "2", "/", "0", "5">>, <<"A", "s", "s", "o", "c", "i", "a", "t", "i", "o", "n", " ", "a", "s", "s", "i", "g", "n", "e", "d", " ", "c", "o", "d", "e", " ", "(", "0", "0", "5", "7", ")">>,
                  <<"C", "o", "d", "e", " ", "a", "s", "s", "i", "g", "n", "e", "d", " ", "b", "y", " ", "a", "s", "s", "o", "c", "i", "a", "t", "i", "o", "n", "s">>) >>),
       TableEntry(<<"B", "G", "M">>, <<"B", "e", "g", "i", "n", "n", "i", "n", "g", " ", "o", "f", " ", "m", "e", "s", "s", "a", "g", "e">>, <<>>,
         << Field(<<"B", "G", "M", "/", "0", "1", "/", "0", "1">>, <<"D", "o", "c", "u", "m", "e", "n", "t", "/", "m", "e", "s", "s", "a", "g", "e", " ", "n", "a", "m", "e", ",", " ", "c", "o", "d", "e", "d", " ", "(", "1", "0", "0", "1", ")">>,
                  <<"C", "o", "d", "e", " ", "i", "d", "e", "n", "t", "i", "f", "y", "i", "n", "g", " ", "t", "h", "e", " ", "d", "o", "c", "u", "m", "e", "n", "t", "/", "m", "e", "s", "s", "a", "g", "e", " ", "n", "a", "m", "e">>),
            Field(<<"B", "G", "M", "/", "0", "2", "/", "0", "1">>, <<"D", "o", "c", "u", "m", "e", "n", "t", "/", "m", "e", "s", "s", "a", "g", "e", " ", "n", "u", "m", "b", "e", "r", " ", "(", "1", "0", "0", "4", ")">>,
                  <<"I", "d", "e", "n", "t", "i", "f", "i", "e", "r", " ", "f", "o", "r", " ", "t", "h", "e", " ", "d", "o", "c", "u", "m", "e", "n", "t", "/", "m", "e", "s", "s", "a", "g", "e">>),
            Field(<<"B", "G", "M", "/", "0", "3", "/", "0", "1">>, <<"M", "e", "s", "s", "a", "g", "e", " ", "f", "u", "n", "c", "t", "i", "o", "n", ",", " ", "c", "o", "d", "e", "d", " ", "(", "1", "2", "2", "5", ")">>,
                  <<"C", "o", "d", "e", " ", "i", "n", "d", "i", "c", "a", "t", "i", "n", "g", " ", "t", "h", "e", " ", "f", "u", "n", "c", "t", "i", "o", "n", " ", "o", "f", " ", "t", "h", "e", " ", "m", "e", "s", "s", "a", "g", "e">>) >>),
       TableEntry(<<"D", "T", "M">>, <<"D", "a", "t", "e", "/", "t", "i", "m", "e", "/", "p", "e", "r", "i", "o", "d">>, <<>>,
         << Field(<<"D", "T", "M", "/", "0", "1", "/", "0", "1">>, <<"D", "a", "t", "e", "/", "t", "i", "m", "e", "/", "p", "e", "r", "i", "o", "d", " ", "q", "u", "a", "l", "i", "f", "i", "e", "r", " ", "(", "2", "0", "0", "5", ")">>,
                  <<"Q", "u", "a", "l", "i", "f", "i", "e", "r", " ", "s", "p", "e", "c", "i", "f", "y", "i", "n", "g", " ", "t", "h", "e", " ", "t", "y", "p", "e", " ", "o", "f", " ", "d", "a", "t", "e", "/", "t", "i", "m", "e", " ", "(", "e", ".", "g", ".", ",", " ", "1", "3", "7", "=", "D", "o", "c", "u", "m", "e", "n", "t", " ", "d", "a", "t", "e", "/", "t", "i", "m", "e", ",", " ", "1", "7", "1", "=", "R", "e", "f", "e", "r", "e", "n", "c", "e", " ", "d", "a", "t", "e", "/", "t", "i", "m", "e", ")">>),
            Field(<<"D", "T", "M", "/", "0", "1", "/", "0", "2">>, <<"D", "a", "t", "e", "/", "t", "i", "m", "e", "/", "p", "e", "r", "i", "o", "d", " ", "(", "2", "3", "8", "0", ")">>,
                  <<"D", "a", "t", "e", "/", "t", "i", "m", "e", " ", "v", "a", "l", "u", "e", " ", "f", "o", "r", "m", "a", "t", "t", "e", "d", " ", "p", "e", "r", " ", "2", "3", "7", "9">>),
            Field(<<"D", "T", "M", "/", "0", "1", "/", "0", "3">>, <<"D", "a", "t", "e", "/", "t", "i", "m", "e", "/", "p", "e", "r", "i", "o", "d", " ", "f", "o", "r", "m", "a", "t", " ", "q", "u", "a", "l", "i", "f", "i", "e", "r", " ", "(", "2", "3", "7", "9", ")">>,
                  <<"F", "o", "r", "m", "a", "t", " ", "q", "u", "a", "l", "i", "f", "i", "e", "r", " ", "f", "o", "r", " ", "2", "3", "8", "0", " ", "(", "e", ".", "g", ".", ",", " ", "2", "0", "3", "=", "C", "C", "Y", "Y", "M", "M", "D", "D", "H", "H", "M", "M", ",", " ", "3", "0", "3", "=", "Y", "Y", "M", "M", "D", "D", "H", "H", "M", "M", ")">>) >>),
       TableEntry(<<"R", "F", "F">>, <<"R", "e", "f", "e", "r", "e", "n", "c", "e">>, <<>>,
         << Field(<<"R", "F", "F", "/", "0", "1", "/", "0", "1">>, <<"R", "e", "f", "e", "r", "e", "n", "c", "e", " ", "q", "u", "a", "l", "i", "f", "i", "e", "r", " ", "(", "1", "1", "5", "3", ")">>,
                  <<"S", "p", "e", "c", "i", "f", "i", "e", "s", " ", "t", "h", "e", " ", "t", "y", "p", "e", " ", "o", "f", " ", "r", "e", "f", "e", "r", "e", "n", "c", "e", " ", "(", "e", ".", "g", ".", ",", " ", "O", "N", "=", "O", "r", "d", "e", "r", ",", " ", "T", "N", "=", "T", "r", "a", "n", "s", "a", "c", "t", "i", "o", "n", ",", " ", "A", "C", "E", "=", "A", "c", "c", "o", "u", "n", "t", "/", "R", "e", "f", "e", "r", "e", "n", "c", "e", ")">>),
            Field(<<"R", "F", "F", "/", "0", "1", "/", "0", "2">>, <<"R", "e", "f", "e", "r", "e", "n", "c", "e", " ", "n", "u", "m", "b", "e", "r", " ", "(", "1", "1", "5", "4", ")">>, <<"R", "e", "f", "e", "r", "e", "n", "c", "e", " ", "i", "d", "e", "n", "t", "i", "f", "i", "e", "r", " ", "v", "a", "l", "u", "e">>),
            Field(<<"R", "F", "F", "/", "0", "1", "/", "0", "3">>, <<"L", "i", "n", "e", " ", "n", "u", "m", "b", "e", "r", " ", "(", "1", "1", "5", "6", ")">>, <<"R", "e", "l", "a", "t", "e", "d", " ", "l", "i", "n", "e", " ", "n", "u", "m", "b", "e", "r", ",", " ", "i", "f", " ", "a", "p", "p", "l", "i", "c", "a", "b", "l", "e">>),
            Field(<<"R", "F", "F", "/", "0", "1", "/", "0", "4">>, <<"R", "e", "f", "e", "r", "e", "n", "c", "e", " ", "v", "e", "r", "s", "i", "o", "n", " ", "i", "d", "e", "n", "t", "i", "f", "i", "e", "r", " ", "(", "4", "0", "0", "0", ")">>,
                  <<"F", "r", "e", "e", "-", "f", "o", "r", "m", " ", "r", "e", "f", "e", "r", "e", "n", "c", "e", " ", "d", "e", "s", "c", "r", "i", "p", "t", "i", "o", "n", " ", "o", "r", " ", "v", "e", "r", "s", "i", "o", "n">>) >>),
       TableEntry(<<"N", "A", "D">>, <<"N", "a", "m", "e", " ", "a", "n", "d", " ", "a", "d", "d", "r", "e", "s", "s">>, <<>>,
         << Field(<<"N", "A", "D", "/", "0", "1", "/", "0", "1">>, <<"P", "a", "r", "t", "y", " ", "f", "u", "n", "c", "t", "i", "o", "n", " ", "c", "o", "d", "e", " ", "q", "u", "a", "l", "i", "f", "i", "e", "r", " ", "(", "3", "0", "3", "5", ")">>,
                  <<"I", "d", "e", "n", "t", "i", "f", "i", "e", "s", " ", "t", "h", "e", " ", "r", "o", "l", "e", " ", "o", "f", " ", "t", "h", "e", " ", "p", "a", "r", "t", "y", " ", "(", "e", ".", "g", ".", ",", " ", "M", "S", "=", "M", "e", "s", "s", "a", "g", "e", " ", "s", "e", "n", "d", "e", "r", ",", " ", "M", "R", "=", "M", "e", "s", "s", "a", "g", "e", " ", "r", "e", "c", "i", "p", "i", "e", "n", "t", ")">>),
            Field(<<"N", "A", "D", "/", "0", "2", "/", "0", "1">>, <<"P", "a", "r", "t", "y", " ", "i", "d", " ", "(", "3", "0", "3", "9", ")">>, <<"I", "d", "e", "n", "t", "i", "f", "i", "e", "r", " ", "o", "f", " ", "p", "a", "r", "t", "y">>),
            Field(<<"N", "A", "D", "/", "0", "2", "/", "0", "2">>, <<"C", "o", "d", "e", " ", "l", "i", "s", "t", " ", "q", "u", "a", "l", "i", "f", "i", "e", "r", " ", "(", "1", "1", "3", "1", ")">>, <<"C", "o", "d", "e", " ", "l", "i", "s", "t", " ", "r", "e", "f", "e", "r", "e", "n", "c", "e", ",", " ", "i", "f", " ", "a", "n", "y">>),
            Field(<<"N", "A", "D", "/", "0", "2", "/", "0", "3">>, <<"C", "o", "d", "e", " ", "l", "i", "s", "t", " ", "a", "g", "e", "n", "c", "y", " ", "(", "3", "0", "5", "5", ")">>,
                  <<"A", "g", "e", "n", "c", "y", " ", "c", "o", "n", "t", "r", "o", "l", "l", "i", "n", "g", " ", "t", "h", "e", " ", "c", "o", "d", "e", " ", "l", "i", "s", "t", " ", "(", "e", ".", "g", ".", ",", " ", "2", "9", "3", ")">>) >>),
       TableEntry(<<"U", "N", "B">>, <<"I", "n", "t", "e", "r", "c", "h", "a", "n", "g", "e", " ", "h", "e", "a", "d", "e", "r">>, <<>>,
         << Field(<<"U", "N", "B", "/", "0", "1", "/", "0", "1">>, <<"S", "y", "n", "t", "a", "x", " ", "i", "d", "e", "n", "t", "i", "f", "i", "e", "r", " ", "(", "0", "0", "0", "1", ")">>,
                  <<"E", "D", "I", "F", "A", "C", "T", " ", "s", "y", "n", "t", "a", "x", " ", "i", "d", "e", "n", "t", "i", "f", "i", "e", "r", ",", " ", "e", ".", "g", ".", ",", " ", "U", "N", "O", "C">>),
            Field(<<"U", "N", "B", "/", "0", "1", "/", "0", "2">>, <<"S", "y", "n", "t", "a", "x", " ", "v", "e", "r", "s", "i", "o", "n", " ", "n", "u", "m", "b", "e", "r", " ", "(", "0", "0", "0", "2", ")">>,
                  <<"V", "e", "r", "s", "i", "o", "n", " ", "o", "f", " ", "t", "h", "e", " ", "s", "y", "n", "t", "a", "x", ",", " ", "e", ".", "g", ".", ",", " ", "3">>),
            Field(<<"U", "N", "B", "/", "0", "2", "/", "0", "1">>, <<"S", "e", "n", "d", "e", "r", " ", "i", "d", "e", "n", "t", "i", "f", "i", "c", "a", "t", "i", "o", "n", " ", "(", "0", "0", "0", "4", ")">>, <<"I", "n", "t", "e", "r", "c", "h", "a", "n", "g", "e", " ", "s", "e", "n", "d", "e", "r", " ", "I", "D">>),
            Field(<<"U", "N", "B", "/", "0", "2", "/", "0", "2">>, <<"P", "a", "r", "t", "n", "e", "r", " ", "i", "d", "e", "n", "t", "i", "f", "i", "c", "a", "t", "i", "o", "n", " ", "c", "o", "d", "e", " ", "q", "u", "a", "l", "i", "f", "i", "e", "r", " ", "(", "0", "0", "0", "7", ")">>,
                  <<"Q", "u", "a", "l", "i", "f", "i", "e", "r", " ", "f", "o", "r", " ", "s", "e", "n", "d", "e", "r", " ", "I", "D">>),
            Field(<<"U", "N", "B", "/", "0", "3", "/", "0", "1">>, <<"R", "e", "c", "i", "p", "i", "e", "n", "t", " ", "i", "d", "e", "n", "t", "i", "f", "i", "c", "a", "t", "i", "o", "n", " ", "(", "0", "0", "1", "0", ")">>,
                  <<"I", "n", "t", "e", "r", "c", "h", "a", "n", "g", "e", " ", "r", "e", "c", "i", "p", "i", "e", "n", "t", " ", "I", "D">>),
            Field(<<"U", "N", "B", "/", "0", "3", "/", "0", "2">>, <<"P", "a", "r", "t", "n", "e", "r", " ", "i", "d", "e", "n", "t", "i", "f", "i", "c", "a", "t", "i", "o", "n", " ", "c", "o", "d", "e", " ", "q", "u", "a", "l", "i", "f", "i", "e", "r", " ", "(", "0", "0", "0", "7", ")">>,
                  <<"Q", "u", "a", "l", "i", "f", "i", "e", "r", " ", "f", "o", "r", " ", "r", "e", "c", "i", "p", "i", "e", "n", "t", " ", "I", "D">>),
            Field(<<"U", "N", "B", "/", "0", "4", "/", "0", "1">>, <<"D", "a", "t", "e", " ", "(", "0", "0", "1", "7", ")">>,
                  <<"D", "a", "t", "e", " ", "o", "f", " ", "p", "r", "e", "p", "a", "r", "a", "t", "i", "o", "n", " ", "(", "Y", "Y", "M", "M", "D", "D", " ", "o", "r", " ", "C", "C", "Y", "Y", "M", "M", "D", "D", " ", "d", "e", "p", "e", "n", "d", "i", "n", "g", " ", "o", "n", " ", "u", "s", "e", ")">>),
            Field(<<"U", "N", "B", "/", "0", "4", "/", "0", "2">>, <<"T", "i", "m", "e", " ", "(", "0", "0", "1", "9", ")">>, <<"T", "i", "m", "e", " ", "o", "f", " ", "p", "r", "e", "p", "a", "r", "a", "t", "i", "o", "n", " ", "(", "H", "H", "M", "M", ")">>),
            Field(<<"U", "N", "B", "/", "0", "5", "/", "0", "1">>, <<"I", "n", "t", "e", "r", "c", "h", "a", "n", "g", "e", " ", "c", "o", "n", "t", "r", "o", "l", " ", "r", "e", "f", "e", "r", "e", "n", "c", "e", " ", "(", "0", "0", "2", "0", ")">>,
                  <<"I", "n", "t", "e", "r", "c", "h", "a", "n", "g", "e", " ", "c", "o", "n", "t", "r", "o", "l", " ", "r", "e", "f", "e", "r", "e", "n", "c", "e">>) >>),
       TableEntry(<<"U", "N", "T">>, <<"M", "e", "s", "s", "a", "g", "e", " ", "t", "r", "a", "i", "l", "e", "r">>, <<>>,
         << Field(<<"U", "N", "T", "/", "0", "1", "/", "0", "1">>, <<"N", "u", "m", "b", "e", "r", " ", "o", "f", " ", "s", "e", "g", "m", "e", "n", "t", "s", " ", "i", "n", " ", "a", " ", "m", "e", "s", "s", "a", "g", "e", " ", "(", "0", "0", "7", "4", ")">>,
                  <<"S", "e", "g", "m", "e", "n", "t", " ", "c", "o", "u", "n", "t", " ", "i", "n", "c", "l", "u", "d", "i", "n", "g", " ", "U", "N", "H", " ", "a", "n", "d", " ", "U", "N", "T">>),
            Field(<<"U", "N", "T", "/", "0", "2", "/", "0", "1">>, <<"M", "e", "s", "s", "a", "g", "e", " ", "r", "e", "f", "e", "r", "e", "n", "c", "e", " ", "n", "u", "m", "b", "e", "r", " ", "(", "0", "0", "6", "2", ")">>,
                  <<"M", "u", "s", "t", " ", "m", "a", "t", "c", "h", " ", "U", "N", "H", " ", "r", "e", "f", "e", "r", "e", "n", "c", "e", " ", "n", "u", "m", "b", "e", "r">>) >>),
       TableEntry(<<"U", "N", "Z">>, <<"I", "n", "t", "e", "r", "c", "h", "a", "n", "g", "e", " ", "t", "r", "a", "i", "l", "e", "r">>, <<>>,
         << Field(<<"U", "N", "Z", "/", "0", "1", "/", "0", "1">>, <<"I", "n", "t", "e", "r", "c", "h", "a", "n", "g", "e", " ", "c", "o", "n", "t", "r", "o", "l", " ", "c", "o", "u", "n", "t", " ", "(", "0", "0", "3", "6", ")">>,
                  <<"N", "u", "m", "b", "e", "r", " ", "o", "f", " ", "m", "e", "s", "s", "a", "g", "e", "s", " ", "o", "r", " ", "f", "u", "n", "c", "t", "i", "o", "n", "a", "l", " ", "g", "r", "o", "u", "p", "s">>),
            Field(<<"U", "N", "Z", "/", "0", "2", "/", "0", "1">>, <<"I", "n", "t", "e", "r", "c", "h", "a", "n", "g", "e", " ", "c", "o", "n", "t", "r", "o", "l", " ", "r", "e", "f", "e", "r", "e", "n", "c", "e", " ", "(", "0", "0", "2", "0", ")">>,
                  <<"M", "u", "s", "t", " ", "m", "a", "t", "c", "h", " ", "U", "N", "B", " ", "c", "o", "n", "t", "r", "o", "l", " ", "r", "e", "f", "e", "r", "e", "n", "c", "e">>) >>) >>

\* The synthesized table handed to the generator: an object, or undefined
JsTable(entries) == [type |-> "object", entries |-> entries]

\* spec?.synthesized || {}
specMappingOf(synthesized) ==
    IF synthesized.type = "object" THEN synthesized.entries ELSE <<>>

\* Mutant: the synthesized table is used even when it has no keys
mapping_alwaysSynthesized(specMapping) == specMapping

\* (specMapping && Object.keys(specMapping).length) ? specMapping : defaultMapping
mapping(specMapping) ==
    IF Len(specMapping) > 0 THEN specMapping ELSE defaultMapping

\* mapping?.[tag]: the index of the entry under key tag, 0 when there is none
entryIndex(mp, tag) ==
    LET hits == {k \in 1..Len(mp) : mp[k].tag = tag} IN
    IF hits = {} THEN 0 ELSE CHOOSE k \in hits : \A h \in hits : k <= h

DigitChars == <<"0", "1", "2", "3", "4", "5", "6", "7", "8", "9">>

RECURSIVE toDecimal(_)
\* String(n) for a natural number n
toDecimal(n) ==
    IF n < 10 THEN <<DigitChars[n + 1]>>
    ELSE toDecimal(n \div 10) \o <<DigitChars[(n % 10) + 1]>>

\* Mutant: the index is not advanced to its 1-based value
pad2_zeroBased(n) ==
    LET s == toDecimal(n) IN IF Len(s) < 2 THEN <<"0">> \o s ELSE s

\* String(n+1).padStart(2, '0')
pad2(n) ==
    LET s == toDecimal(n + 1) IN IF Len(s) < 2 THEN <<"0">> \o s ELSE s

\* What getFieldMeta returns when it returns null: every property read
\* through meta?. is undefined
NoMeta == Field(<<>>, <<>>, <<>>)

\* Mutant: only the zero-padded path is matched
getFieldMeta_paddedOnly(mp, tag, i, j) ==
    LET e == entryIndex(mp, tag) IN
    IF e = 0 THEN NoMeta
    ELSE LET p2 == tag \o <<"/">> \o pad2(i) \o <<"/">> \o pad2(j)
             candidates == SelectSeq(mp[e].fields, LAMBDA f : f.path # <<>> /\ f.path = p2)
         IN  IF candidates = <<>> THEN NoMeta ELSE candidates[1]

\* j is a number at the only call, so the branch for j == null is never taken
getFieldMeta(mp, tag, i, j) ==
    LET e == entryIndex(mp, tag) IN
    IF e = 0 THEN NoMeta
    ELSE LET p2 == tag \o <<"/">> \o pad2(i) \o <<"/">> \o pad2(j)
             unpadded == tag \o <<"/">> \o toDecimal(i + 1) \o <<"/">> \o toDecimal(j + 1)
             candidates == SelectSeq(mp[e].fields,
                               LAMBDA f : f.path # <<>> /\ (f.path = p2 \/ f.path = unpadded))
         IN  IF candidates = <<>> THEN NoMeta ELSE candidates[1]

\* The built-in qualifier tables, as lists of code and meaning
qualifiers ==
    [DTM |-> << Code(<<"1", "3", "7">>, <<"D", "o", "c", "u", "m", "e", "n", "t", "/", "m", "e", "s", "s", "a", "g", "e", " ", "d", "a", "t", "e", "/", "t", "i", "m", "e">>),
                Code(<<"1", "7", "1">>, <<"R", "e", "f", "e", "r", "e", "n", "c", "e", " ", "d", "a", "t", "e", "/", "t", "i", "m", "e">>),
                Code(<<"1", "6", "3">>, <<"D", "e", "l", "i", "v", "e", "r", "y", " ", "d", "a", "t", "e", "/", "t", "i", "m", "e", ",", " ", "l", "a", "t", "e", "s", "t">>) >>,
     RFF |-> << Code(<<"O", "N">>, <<"O", "r", "d", "e", "r", " ", "n", "u", "m", "b", "e", "r">>),
                Code(<<"D", "Q">>, <<"D", "e", "l", "i", "v", "e", "r", "y", " ", "n", "o", "t", "e", " ", "n", "u", "m", "b", "e", "r">>),
                Code(<<"A", "C", "E">>, <<"R", "e", "f", "e", "r", "e", "n", "c", "e", " ", "(", "A", "C", "E", ")">>),
                Code(<<"T", "N">>, <<"T", "r", "a", "n", "s", "a", "c", "t", "i", "o", "n", "/", "r", "e", "f", "e", "r", "e", "n", "c", "e", " ", "n", "u", "m", "b", "e", "r">>),
                Code(<<"A", "G", "O">>, <<"A", "g", "r", "e", "e", "m", "e", "n", "t", "/", "o", "r", "d", "e", "r", " ", "r", "e", "f", "e", "r", "e", "n", "c", "e">>) >>]

\* codes.find(c => c.code === q)?.meaning, <<>> when there is none
meaningIn(codes, q) ==
    LET hits == {k \in 1..Len(codes) : codes[k].code = q} IN
    IF hits = {} THEN <<>>
    ELSE codes[CHOOSE k \in hits : \A h \in hits : k <= h].meaning

\* qualifiers.DTM[q] || meta?.codes?.find?.(c => c.code === q)?.meaning
qDescOf(builtin, meta, q) ==
    IF meaningIn(builtin, q) # <<>> THEN meaningIn(builtin, q) ELSE meaningIn(meta.codes, q)

\* if (qDesc) description = description ? (... + ' (qualifier q: qDesc)') : ('Qualifier q: qDesc')
withQualifier(description, q, qDesc) ==
    IF qDesc = <<>> THEN description
    ELSE IF description # <<>>
         THEN description \o <<" ", "(", "q", "u", "a", "l", "i", "f", "i", "e", "r", " ">> \o q \o <<":", " ">> \o qDesc \o <<")">>
         ELSE <<"Q", "u", "a", "l", "i", "f", "i", "e", "r", " ">> \o q \o <<":", " ">> \o qDesc

DTM == <<"D", "T", "M">>

RFF == <<"R", "F", "F">>

\* One iteration of the loop over the components of element i
explainField(mp, tag, i, j, val) ==
    LET meta == getFieldMeta(mp, tag, i, j)
        name == IF meta.name # <<>> THEN meta.name
                ELSE <<"C", "o", "m", "p", "o", "n", "e", "n", "t", " ">> \o toDecimal(i + 1) \o <<".">> \o toDecimal(j + 1)
        q == trim(val)
        description ==
            IF tag = DTM /\ j = 0
            THEN withQualifier(meta.description, q, qDescOf(qualifiers.DTM, meta, q))
            ELSE IF tag = RFF /\ j = 0
            THEN withQualifier(meta.description, q, qDescOf(qualifiers.RFF, meta, q))
            ELSE meta.description
    IN  [path |-> tag \o <<"/">> \o pad2(i) \o <<"/">> \o pad2(j),
         name |-> name,
         description |-> IF description # <<>> THEN JsString(description) ELSE JsNull,
         value |-> val]

\* m?.segmentDescription || m?.notes || ('Segment ' + s.tag)
segDescOf(mp, tag) ==
    LET e == entryIndex(mp, tag) IN
    IF e # 0 /\ mp[e].segmentDescription # <<>> THEN mp[e].segmentDescription
    ELSE IF e # 0 /\ mp[e].notes # <<>> THEN mp[e].notes
    ELSE <<"S", "e", "g", "m", "e", "n", "t", " ">> \o tag

explainSegment(mp, s) ==
    [segment |-> s.tag,
     position |-> s.position,
     description |-> segDescOf(mp, s.tag),
     fields |-> Flatten([e \in 1..Len(s.elements) |->
                    [c \in 1..Len(s.elements[e]) |->
                        explainField(mp, s.tag, e - 1, c - 1, s.elements[e][c])]])]

\* Mutant: out is the argument object itself
assignExplanations_inPlace(parsed, explanations) ==
    LET out1 == [json |-> parsed.json, errors |-> parsed.errors,
                 explanations |-> explanations]
    IN  [parsed |-> out1, out |-> out1]

\* const out = { ...parsed }; out.explanations = ...: the argument object and
\* the object out after the assignment
assignExplanations(parsed, explanations) ==
    [parsed |-> parsed,
     out |-> [json |-> parsed.json, errors |-> parsed.errors,
              explanations |-> explanations]]

\* explain(parsed) of the module generated with the table synthesized: the
\* value returned, and the argument and the table as they are after the call
explain(parsed, synthesized) ==
    LET mp == mapping(specMappingOf(synthesized))
        segs == parsed.json.segments
        objects == assignExplanations(parsed,
                       [segments |-> [k \in 1..Len(segs) |-> explainSegment(mp, segs[k])]])
    IN  [returned |-> objects.out, parsed |-> objects.parsed, synthesized |-> synthesized]

-----------------------------------------------------------------------------
(* ExplainSpec: calls of explain, of modules generated with various tables *)

ExplainTexts ==
    { SampleMessage,
      <<"D", "T", "M", "+", "1", "3", "7", ":", "2", "0", "2", "5", "0", "1", "0", "1", "1", "2", "0", "0", ":", "2", "0", "3", "'", "R", "F", "F", "+", "O", "N", ":", "4", "7", "1", "1", "'", "D", "T", "M", "+", "9", "9", "9", ":", "X", "'", "R", "F", "F", "+", "Z", "Z", ":", "1", "'", "D", "T", "M", "+", " ", "1", "7", "1", " ", "'">>,
      <<"X", "Y", "Z", "+", "A", ":", "B", "+", "C", "'", "B", "G", "M", "+", "3", "1", "2", "+", "X", "'">>,
      <<"B", "G", "M", "+", "1", "+", "2", "+", "3", "+", "4", "+", "5", "+", "6", "+", "7", "+", "8", "+", "9", "+", "1", "0", "+", "1", "1", "'", "N", "A", "D", "+", "M", "S", "+", "X", ":", ":", "2", "9", "3", "'", "U", "X", "H", "'">> }

\* What parseEdifactToJson resolved to, the argument of explain
ParsedOf(text) ==
    LET r == parseEdifactToJson(JsString(text), APERAK)
    IN  [json |-> r.json, errors |-> r.errors]

ExplainDocuments == {ParsedOf(t) : t \in ExplainTexts}

\* A synthesized table that overrides qualifier meanings, writes a path
\* without zero padding and describes a segment through notes
CustomTable ==
    JsTable(<<
       TableEntry(DTM, <<"D", "a", "t", "u", "m">>, <<>>,
         << FieldWithCodes(<<"D", "T", "M", "/", "0", "1", "/", "0", "1">>, <<"Q", "u", "a", "l", "i", "f", "i", "e", "r">>, <<"A", "r", "t", " ", "d", "e", "s", " ", "D", "a", "t", "u", "m", "s">>,
                << Code(<<"1", "3", "7">>, <<"B", "e", "l", "e", "g", "d", "a", "t", "u", "m">>), Code(<<"9", "9", "9">>, <<"S", "o", "n", "d", "e", "r", "d", "a", "t", "u", "m">>) >>) >>),
       TableEntry(<<"B", "G", "M">>, <<>>, <<"B", "e", "g", "i", "n", "n", " ", "d", "e", "r", " ", "N", "a", "c", "h", "r", "i", "c", "h", "t">>,
         << Field(<<"B", "G", "M", "/", "1", "/", "1">>, <<"N", "a", "c", "h", "r", "i", "c", "h", "t", "e", "n", "t", "y", "p">>, <<>>) >>),
       TableEntry(RFF, <<"R", "e", "f", "e", "r", "e", "n", "z">>, <<>>,
         << FieldWithCodes(<<"R", "F", "F", "/", "0", "1", "/", "0", "1">>, <<>>, <<>>,
                << Code(<<"Z", "Z">>, <<"G", "e", "g", "e", "n", "s", "e", "i", "t", "i", "g", " ", "v", "e", "r", "e", "i", "n", "b", "a", "r", "t">>) >>) >>) >>)

EmptyTable == JsTable(<<>>)

Tables == {JsUndefined, EmptyTable, CustomTable}

ExplainInit ==
    /\ explainCalls = <<>>
    /\ input = JsNull
    /\ format = APERAK
    /\ out = NoCall
    /\ TesterIdle

\* Mutant: the module numbers the annotated segments with a counter that
\* lives on between calls
CallExplain_countingCalls ==
    /\ Len(explainCalls) < MaxCalls
    /\ \E parsed \in ExplainDocuments, synthesized \in Tables :
           LET r == explain(parsed, synthesized)
               segs == r.returned.explanations.segments
               counted == [k \in 1..Len(segs) |->
                              [segs[k] EXCEPT !.position = @ + Len(explainCalls)]]
           IN  explainCalls' = Append(explainCalls,
                   [parsed |-> parsed, synthesized |-> synthesized,
                    after |-> [r EXCEPT !.returned.explanations.segments = counted]])
    /\ UNCHANGED <<input, format, out, testerVars>>

\* One call of explain; everything the function works with is created
\* inside the call
CallExplain ==
    /\ Len(explainCalls) < MaxCalls
    /\ \E parsed \in ExplainDocuments, synthesized \in Tables :
           explainCalls' = Append(explainCalls,
               [parsed |-> parsed, synthesized |-> synthesized,
                after |-> explain(parsed, synthesized)])
    /\ UNCHANGED <<input, format, out, testerVars>>

ExplainNext == CallExplain

ExplainSpec == ExplainInit /\ [][ExplainNext]_vars

-----------------------------------------------------------------------------
(* Properties of the field annotator, checked under ExplainSpec *)

RECURSIVE ComponentCount(_, _)
\* The number of components in the first n elements
ComponentCount(elements, n) ==
    IF n = 0 THEN 0 ELSE ComponentCount(elements, n - 1) + Len(elements[n])

\* A 1-based index below 100 written with two digits
TwoDigits(n) == <<DigitChars[(n \div 10) + 1], DigitChars[(n % 10) + 1]>>

\* TAG/ee/cc for the c-th component of the e-th element
PaddedPath(tag, e, c) == tag \o <<"/">> \o TwoDigits(e) \o <<"/">> \o TwoDigits(c)

\* TAG/e/c, the same path written without zero padding
UnpaddedPath(tag, e, c) == tag \o <<"/">> \o toDecimal(e) \o <<"/">> \o toDecimal(c)

\* The annotated field of the c-th component of the e-th element of seg
FieldOf(annotated, seg, e, c) ==
    annotated.fields[ComponentCount(seg.elements, e - 1) + c]

\* The table a call annotates with: the synthesized one unless it is
\* omitted or empty
TableInEffect(synthesized) ==
    IF synthesized.type = "object" /\ synthesized.entries # <<>>
    THEN synthesized.entries ELSE defaultMapping

\* The fields listed for tag in table whose path is one of paths
EntriesAt(table, tag, paths) ==
    {f \in UNION {{table[k].fields[n] : n \in 1..Len(table[k].fields)} :
                      k \in {h \in 1..Len(table) : table[h].tag = tag}} :
        f.path \in paths}

GenericName(e, c) == <<"C", "o", "m", "p", "o", "n", "e", "n", "t", " ">> \o toDecimal(e) \o <<".">> \o toDecimal(c)

\* C13: the annotation has one AnnotatedSegment per Document segment, in
\* order, with the same tag and position, and each has one AnnotatedField
\* per component, ordered by element then component, whose path is
\* TAG/pad2(i+1)/pad2(j+1) and whose value is the component's raw string.
C13_AnnotationCoversDocumentInOrder ==
    \A n \in 1..Len(explainCalls) :
        LET segs == explainCalls[n].parsed.json.segments
            ann == explainCalls[n].after.returned.explanations.segments
        IN  /\ Len(ann) = Len(segs)
            /\ \A k \in 1..Len(segs) :
                   /\ ann[k].segment = segs[k].tag
                   /\ ann[k].position = segs[k].position
                   /\ Len(ann[k].fields) =
                          ComponentCount(segs[k].elements, Len(segs[k].elements))
                   /\ \A e \in 1..Len(segs[k].elements) :
                          \A c \in 1..Len(segs[k].elements[e]) :
                              /\ FieldOf(ann[k], segs[k], e, c).path
                                     = PaddedPath(segs[k].tag, e, c)
                              /\ FieldOf(ann[k], segs[k], e, c).value
                                     = segs[k].elements[e][c]

C13_Witness ==
    \E n \in 1..Len(explainCalls) :
        LET ann == explainCalls[n].after.returned.explanations.segments IN
        /\ Len(ann) = 5
        /\ ann[2].segment = UNH
        /\ Len(ann[2].fields) = 6
        /\ ann[2].fields[6].path = <<"U", "N", "H", "/", "0", "2", "/", "0", "5">>
        /\ ann[2].fields[6].value = <<"2", ".", "1", "i">>
        /\ \E m \in 1..Len(explainCalls) :
               LET big == explainCalls[m].after.returned.explanations.segments IN
               /\ Len(big) = 3
               /\ Len(big[1].fields) = 11
               /\ big[1].fields[10].path = <<"B", "G", "M", "/", "1", "0", "/", "0", "1">>

\* Whether qualifier enrichment applies to the c-th component of a segment
Enriched(tag, c) == tag \in {DTM, RFF} /\ c = 1

\* C14 as stated: a component with no entry at its exact (zero-padded) path
\* gets the generic name and a null description (qualifier enrichment
\* apart), and a tag absent from the table gets the description Segment TAG.
C14_GenericLabelsWithoutExactPathEntry ==
    \A n \in 1..Len(explainCalls) :
        LET segs == explainCalls[n].parsed.json.segments
            ann == explainCalls[n].after.returned.explanations.segments
            table == TableInEffect(explainCalls[n].synthesized)
        IN  \A k \in 1..Len(segs) :
                /\ (\A h \in 1..Len(table) : table[h].tag # segs[k].tag)
                       => ann[k].description = <<"S", "e", "g", "m", "e", "n", "t", " ">> \o segs[k].tag
                /\ \A e \in 1..Len(segs[k].elements) :
                       \A c \in 1..Len(segs[k].elements[e]) :
                           EntriesAt(table, segs[k].tag, {PaddedPath(segs[k].tag, e, c)}) = {}
                               => /\ FieldOf(ann[k], segs[k], e, c).name = GenericName(e, c)
                                  /\ ~Enriched(segs[k].tag, c)
                                         => FieldOf(ann[k], segs[k], e, c).description = JsNull

\* C14 as amended: a component with no entry at its path, written with or
\* without zero padding, gets the generic name and a null description
\* (qualifier enrichment apart), and a tag absent from the table gets the
\* description Segment TAG; an entry written with the unpadded path
\* TAG/(i+1)/(j+1) is a match and gives the field its name.
C14_GenericLabelsWithoutPathEntry ==
    \A n \in 1..Len(explainCalls) :
        LET segs == explainCalls[n].parsed.json.segments
            ann == explainCalls[n].after.returned.explanations.segments
            table == TableInEffect(explainCalls[n].synthesized)
        IN  /\ Len(ann) = Len(segs)
            /\ \A k \in 1..Len(segs) :
                /\ (\A h \in 1..Len(table) : table[h].tag # segs[k].tag)
                       => ann[k].description = <<"S", "e", "g", "m", "e", "n", "t", " ">> \o segs[k].tag
                /\ \A e \in 1..Len(segs[k].elements) :
                       \A c \in 1..Len(segs[k].elements[e]) :
                           LET padded == EntriesAt(table, segs[k].tag,
                                             {PaddedPath(segs[k].tag, e, c)})
                               unpadded == EntriesAt(table, segs[k].tag,
                                               {UnpaddedPath(segs[k].tag, e, c)})
                               field == FieldOf(ann[k], segs[k], e, c)
                           IN  /\ (padded = {} /\ unpadded = {})
                                      => /\ field.name = GenericName(e, c)
                                         /\ ~Enriched(segs[k].tag, c)
                                                => field.description = JsNull
                               /\ (padded = {} /\ unpadded # {})
                                      => \E f \in unpadded :
                                             f.name # <<>> => field.name = f.name

C14_Witness ==
    \E n \in 1..Len(explainCalls) :
        LET ann == explainCalls[n].after.returned.explanations.segments IN
        /\ explainCalls[n].synthesized = CustomTable
        /\ Len(ann) = 2
        /\ ann[1].segment = <<"X", "Y", "Z">>
        /\ ann[1].description = <<"S", "e", "g", "m", "e", "n", "t", " ", "X", "Y", "Z">>
        /\ ann[1].fields[2].name = <<"C", "o", "m", "p", "o", "n", "e", "n", "t", " ", "1", ".", "2">>
        /\ ann[1].fields[2].description = JsNull
        /\ ann[2].segment = <<"B", "G", "M">>
        /\ ann[2].fields[1].name = <<"N", "a", "c", "h", "r", "i", "c", "h", "t", "e", "n", "t", "y", "p">>
        /\ ann[2].fields[2].name = <<"C", "o", "m", "p", "o", "n", "e", "n", "t", " ", "2", ".", "1">>

\* C15: for the first component of a DTM or RFF element whose matched entry
\* has a codes list holding the raw qualifier, the meaning appended to the
\* description is the one of that codes list, whatever the built-in table
\* says about the code.
C15_CodesListMeaningPreferred ==
    \A n \in 1..Len(explainCalls) :
        LET segs == explainCalls[n].parsed.json.segments
            ann == explainCalls[n].after.returned.explanations.segments
            table == TableInEffect(explainCalls[n].synthesized)
        IN  \A k \in 1..Len(segs) :
                segs[k].tag \in {DTM, RFF} =>
                    \A e \in 1..Len(segs[k].elements) :
                        LET q == trim(segs[k].elements[e][1])
                            meta == getFieldMeta(table, segs[k].tag, e - 1, 0)
                            meaning == meaningIn(meta.codes, q)
                        IN  meaning # <<>> =>
                                FieldOf(ann[k], segs[k], e, 1).description =
                                    JsString(withQualifier(meta.description, q, meaning))

\* The segment descriptions of the built-in table
DefaultDescriptions ==
    { <<<<"U", "N", "B">>, <<"I", "n", "t", "e", "r", "c", "h", "a", "n", "g", "e", " ", "h", "e", "a", "d", "e", "r">>>>, <<<<"U", "N", "H">>, <<"M", "e", "s", "s", "a", "g", "e", " ", "h", "e", "a", "d", "e", "r">>>>,
      <<<<"B", "G", "M">>, <<"B", "e", "g", "i", "n", "n", "i", "n", "g", " ", "o", "f", " ", "m", "e", "s", "s", "a", "g", "e">>>>, <<<<"D", "T", "M">>, <<"D", "a", "t", "e", "/", "t", "i", "m", "e", "/", "p", "e", "r", "i", "o", "d">>>>,
      <<<<"R", "F", "F">>, <<"R", "e", "f", "e", "r", "e", "n", "c", "e">>>>, <<<<"N", "A", "D">>, <<"N", "a", "m", "e", " ", "a", "n", "d", " ", "a", "d", "d", "r", "e", "s", "s">>>>,
      <<<<"U", "N", "T">>, <<"M", "e", "s", "s", "a", "g", "e", " ", "t", "r", "a", "i", "l", "e", "r">>>>, <<<<"U", "N", "Z">>, <<"I", "n", "t", "e", "r", "c", "h", "a", "n", "g", "e", " ", "t", "r", "a", "i", "l", "e", "r">>>> }

\* C16: with an empty or omitted table every segment tagged UNB, UNH, BGM,
\* DTM, RFF, NAD, UNT or UNZ gets the description and the field names of the
\* built-in table, and every segment of the Document is annotated.
C16_DefaultTableWhenNoneSupplied ==
    \A n \in 1..Len(explainCalls) :
        explainCalls[n].synthesized \in {JsUndefined, EmptyTable} =>
            LET segs == explainCalls[n].parsed.json.segments
                ann == explainCalls[n].after.returned.explanations.segments
            IN  /\ Len(ann) = Len(segs)
                /\ \A k \in 1..Len(segs) :
                       \A d \in DefaultDescriptions :
                           d[1] = segs[k].tag =>
                               /\ ann[k].description = d[2]
                               /\ \A x \in 1..Len(ann[k].fields) :
                                      \A f \in EntriesAt(defaultMapping, d[1],
                                                   {ann[k].fields[x].path}) :
                                          ann[k].fields[x].name = f.name

C16_Witness ==
    /\ Len(explainCalls) = 2
    /\ explainCalls[1].synthesized = JsUndefined
    /\ explainCalls[2].synthesized = EmptyTable
    /\ \A n \in 1..2 :
           LET ann == explainCalls[n].after.returned.explanations.segments IN
           /\ Len(ann) = 5
           /\ ann[2].description = <<"M", "e", "s", "s", "a", "g", "e", " ", "h", "e", "a", "d", "e", "r">>
           /\ ann[2].fields[2].name = <<"M", "e", "s", "s", "a", "g", "e", " ", "t", "y", "p", "e", " ", "(", "0", "0", "6", "5", ")">>
           /\ ann[5].description = <<"I", "n", "t", "e", "r", "c", "h", "a", "n", "g", "e", " ", "t", "r", "a", "i", "l", "e", "r">>

\* C17: after explain returns, the parse result it was given and the mapping
\* table are what they were before the call, the parse result has no
\* explanations field, and the returned value carries the annotations next
\* to the same json and errors.
C17_ExplainLeavesItsInputAlone ==
    \A n \in 1..Len(explainCalls) :
        LET call == explainCalls[n] IN
        /\ call.after.parsed = call.parsed
        /\ call.after.synthesized = call.synthesized
        /\ "explanations" \notin DOMAIN call.after.parsed
        /\ DOMAIN call.after.returned = {"json", "errors", "explanations"}
        /\ call.after.returned.json = call.parsed.json
        /\ call.after.returned.errors = call.parsed.errors

C17_Witness ==
    \E n \in 1..Len(explainCalls) :
        /\ explainCalls[n].synthesized = CustomTable
        /\ Len(explainCalls[n].after.returned.explanations.segments) = 3
        /\ explainCalls[n].after.parsed = explainCalls[n].parsed
        /\ DOMAIN explainCalls[n].after.parsed = {"json", "errors"}

-----------------------------------------------------------------------------
(* Further properties of the parser functions, checked under ParserSpec *)

\* C22: the two checks do not depend on each other: each code is reported
\* exactly when its own check fails, at most once, FIELD_VALUE_MISMATCH
\* before UNT_SEGMENT_COUNT_MISSING, and the Document is the one returned
\* whatever the checks find (it is the same for every expected type).
C22_ChecksIndependentAndNonAborting ==
    Parsed =>
        LET segs == out.res.json.segments
            errors == out.res.errors
            mismatches == ErrorsWithCode(errors, FIELD_VALUE_MISMATCH)
            missing == ErrorsWithCode(errors, UNT_SEGMENT_COUNT_MISSING)
        IN  /\ Cardinality(mismatches) <= 1
            /\ Cardinality(missing) <= 1
            /\ mismatches \cup missing = 1..Len(errors)
            /\ \A a \in mismatches, b \in missing : a < b
            /\ missing # {} <=> untErrors(segs) # <<>>
            /\ mismatches # {} <=> unhErrors(segs, format) # <<>>
            /\ \A f \in CallerFormats :
                   LET other == parseEdifactToJson(input, f) IN
                   /\ other.json = out.res.json
                   /\ ErrorsWithCode(other.errors, UNT_SEGMENT_COUNT_MISSING) # {}
                          <=> missing # {}

C22_Witness ==
    /\ Parsed
    /\ input.s = <<"U", "N", "H", "+", "1", "+", "X", "+", "A", "P", "E", "R", "A", "K", "'", "U", "N", "T", "+", "4", "'">>
    /\ format = UTILMD
    /\ Len(out.res.errors) = 2
    /\ out.res.errors[1].code = FIELD_VALUE_MISMATCH
    /\ out.res.errors[2].code = UNT_SEGMENT_COUNT_MISSING
    /\ Len(out.res.json.segments) = 2

\* A release character that escapes what follows it: one with an even
\* number of release characters immediately before it
Releasing(text, i, releaseChar) ==
    text[i] = releaseChar /\ ReleaseRunBefore(text, i, releaseChar) % 2 = 0

\* The characters of text[lo..hi] other than the escaping release characters
LiteralContent(text, lo, hi, releaseChar) ==
    LET kept == {i \in lo..hi : ~Releasing(text, i, releaseChar)}
        nth(n) == CHOOSE i \in kept : Cardinality({j \in kept : j <= i}) = n
    IN  [n \in 1..Cardinality(kept) |-> text[nth(n)]]

\* The stretches of text between unescaped terminators, in source order,
\* each as its literal content
ChunksOf(text, segTerm, releaseChar) ==
    LET ends == UnescapedSeparators(text, segTerm, releaseChar) \cup {Len(text) + 1}
        nthEnd(n) == CHOOSE i \in ends : Cardinality({j \in ends : j <= i}) = n
        start(n) == IF n = 1 THEN 1 ELSE nthEnd(n - 1) + 1
    IN  [n \in 1..Cardinality(ends) |->
            LiteralContent(text, start(n), nthEnd(n) - 1, releaseChar)]

\* C23: splitSegments returns, in source order, the trimmed content of every
\* stretch between unescaped terminators that is not blank, the stretch
\* after the last terminator included; no emitted string is empty or
\* untrimmed, so consecutive terminators leave nothing behind.
C23_SegmentsTrimmedNonEmptyInOrder ==
    out.fn = "splitSegments"
        => LET chunks == ChunksOf(input.s, "'", "?") IN
           /\ \A k \in 1..Len(out.res) :
                  out.res[k] # <<>> /\ trim(out.res[k]) = out.res[k]
           /\ out.res = SelectSeq([n \in 1..Len(chunks) |-> trim(chunks[n])],
                                  LAMBDA s : s # <<>>)

C23_Witness ==
    /\ out.fn = "splitSegments"
    /\ input.s = <<"A", "'", " ", "'", "B">>
    /\ out.res = << <<"A">>, <<"B">> >>

\* The strings of segs joined by the terminator
JoinWith(segs, segTerm) ==
    Flatten([k \in 1..Len(segs) |->
                IF k < Len(segs) THEN Append(segs[k], segTerm) ELSE segs[k]])

\* C24: for a text without release characters, joining the segments
\* splitSegments returned with the terminator and splitting again gives the
\* same segment strings, hence the same count.
C24_SplitJoinSplitIsStable ==
    (out.fn = "splitSegments" /\ \A i \in 1..Len(input.s) : input.s[i] # "?")
        => LET again == splitSegments(JoinWith(out.res, "'"), "'", "?") IN
           /\ Len(again) = Len(out.res)
           /\ again = out.res

C24_Witness ==
    /\ out.fn = "splitSegments"
    /\ input.s = SampleMessage
    /\ Len(out.res) = 5
    /\ JoinWith(out.res, "'") # input.s
    /\ splitSegments(JoinWith(out.res, "'"), "'", "?") = out.res

\* C25 as stated: for every text parsed under the default delimiters,
\* parsing the text with every ++ replaced by +?+ gives the same segments
\* and the same error list.
C25_EscapingEmptyElementsChangesNothing ==
    (Parsed /\ out.res.json.delimiters = DefaultDelimiters)
        => LET mutated == parseEdifactToJson(JsString(escapeEmptyElements(input.s)), format)
           IN  /\ ~mutated.threw
               /\ mutated.json.segments = out.res.json.segments
               /\ mutated.errors = out.res.errors

\* C25 as amended: when the text and the text with every ++ replaced by +?+
\* both resolve to the default delimiters (as every text that does not
\* start with UNA does), parsing either gives the same segments and the
\* same error list.
C25_EscapingChangesNothingUnderDefaults ==
    (/\ Parsed
     /\ out.res.json.delimiters = DefaultDelimiters
     /\ detectDelimiters(escapeEmptyElements(input.s)) = DefaultDelimiters)
        => LET mutated == parseEdifactToJson(JsString(escapeEmptyElements(input.s)), format)
           IN  /\ ~mutated.threw
               /\ mutated.json.segments = out.res.json.segments
               /\ mutated.errors = out.res.errors

C25_Witness ==
    /\ Parsed
    /\ input.s = <<"B", "G", "M", "+", "A", "+", "+", "B", "'">>
    /\ escapeEmptyElements(input.s) = <<"B", "G", "M", "+", "A", "+", "?", "+", "B", "'">>
    /\ Len(out.res.json.segments[1].elements) = 3
    /\ parseEdifactToJson(JsString(<<"B", "G", "M", "+", "A", "+", "?", "+", "B", "'">>), format).json = out.res.json

\* Text that starts with UNA and six characters naming four distinct
\* delimiters
WellFormedAdvice(text) ==
    /\ startsWith(text, UNA)
    /\ Len(text) >= 9
    /\ Cardinality({text[4], text[5], text[7], text[9]}) = 4

\* The advice is the first segment, and the first segment written after the
\* advice, if there is one, is the second
AdviceIsFirstSegment(text, doc) ==
    LET raws == RawSegmentsOf(sliceFrom(text, 9), doc.delimiters) IN
    /\ Len(doc.segments) >= 1
    /\ doc.segments[1].tag = UNA
    /\ doc.segments[1].position = 1
    /\ raws # <<>> =>
           /\ Len(doc.segments) >= 2
           /\ doc.segments[2].position = 2
           /\ doc.segments[2].tag = toUpperCase(slice(raws[1], 0, 3))

\* C26 as stated: for text that begins with a well-formed service string
\* advice the Document's first segment is tagged UNA at position 1 and the
\* first real segment has position 2.
C26_AdviceTokenizedAsFirstSegment ==
    (Parsed /\ WellFormedAdvice(input.s)) => AdviceIsFirstSegment(input.s, out.res.json)

\* C26 as amended: the same, for an advice whose release character and
\* terminator are none of the letters U, N, A and whose decimal mark is
\* neither its release character nor its terminator.
C26_PlainAdviceTokenizedAsFirstSegment ==
    (/\ Parsed
     /\ WellFormedAdvice(input.s)
     /\ {input.s[7], input.s[9]} \cap {"U", "N", "A"} = {}
     /\ input.s[6] \notin {input.s[7], input.s[9]})
        => AdviceIsFirstSegment(input.s, out.res.json)

C26_Witness ==
    /\ Parsed
    /\ input.s = <<"U", "N", "A", ":", "+", ".", "?", " ", "'", "U", "N", "B", "+", "X", "'">>
    /\ Len(out.res.json.segments) = 2
    /\ out.res.json.segments[1].tag = UNA
    /\ out.res.json.segments[1].elements = << << <<>>, <<>> >>, << <<".">> >> >>
    /\ out.res.json.segments[2].tag = <<"U", "N", "B">>
    /\ out.res.json.segments[2].position = 2

\* C30: every segment of a Document has at least one element and every
\* element at least one component, a segment that is only a tag has the
\* single element [''], and so the annotator gives every segment at least
\* one field.
C30_NoSegmentWithoutComponent ==
    Parsed =>
        \A k \in 1..Len(out.res.json.segments) :
            LET seg == out.res.json.segments[k] IN
            /\ Len(seg.elements) >= 1
            /\ \A e \in 1..Len(seg.elements) : Len(seg.elements[e]) >= 1
            /\ RawSegmentsOf(input.s, out.res.json.delimiters)[k] = seg.tag
                   => seg.elements = << << <<>> >> >>
            /\ Len(explainSegment(defaultMapping, seg).fields) >= 1

C30_Witness ==
    /\ Parsed
    /\ input.s = <<"U", "N", "T", "'">>
    /\ out.res.json.segments[1].elements = << << <<>> >> >>
    /\ Len(explainSegment(defaultMapping, out.res.json.segments[1]).fields) = 1

-----------------------------------------------------------------------------
(* The baseline fallback of parse_and_explain_message (parseAndExplainMessage.js) *)

\* detectDelimsFromText
\* Mutant: the decimal mark is taken as release character
detectDelimsFromText_decimalAsRelease(text) ==
    LET six == slice(text, 3, 9)
    IN  IF startsWith(text, UNA) /\ Len(six) = 6
        THEN [componentSep |-> six[1], dataSep |-> six[2],
              releaseChar |-> six[3], segTerm |-> six[6]]
        ELSE [componentSep |-> ":", dataSep |-> "+", releaseChar |-> "?", segTerm |-> "'"]

detectDelimsFromText(text) ==
    LET six == slice(text, 3, 9)
    IN  IF startsWith(text, UNA) /\ Len(six) = 6
        THEN [componentSep |-> six[1], dataSep |-> six[2],
              releaseChar |-> six[4], segTerm |-> six[6]]
        ELSE [componentSep |-> ":", dataSep |-> "+", releaseChar |-> "?", segTerm |-> "'"]

\* The body of the loop of the fallback's splitSegments
fallbackSplitSegmentsStep(st, ch, segTerm, releaseChar) ==
    IF st.released
    THEN [st EXCEPT !.cur = Append(@, ch), !.released = FALSE]
    ELSE IF ch = releaseChar
    THEN [st EXCEPT !.released = TRUE]
    ELSE IF ch = segTerm
    THEN LET t == trim(st.cur)
         IN  [cur |-> <<>>, released |-> FALSE,
              tokens |-> IF t # <<>> THEN Append(st.tokens, t) ELSE st.tokens]
    ELSE [st EXCEPT !.cur = Append(@, ch)]

RECURSIVE fallbackSplitSegmentsLoop(_, _, _, _, _, _)
fallbackSplitSegmentsLoop(text, segTerm, releaseChar, st, lo, hi) ==
    IF lo > hi THEN st
    ELSE IF lo = hi THEN fallbackSplitSegmentsStep(st, text[lo], segTerm, releaseChar)
    ELSE LET mid == (lo + hi) \div 2
             half == fallbackSplitSegmentsLoop(text, segTerm, releaseChar, st, lo, mid)
         IN  IF half.released \in BOOLEAN
             THEN fallbackSplitSegmentsLoop(text, segTerm, releaseChar, half, mid + 1, hi)
             ELSE half

\* splitSegments of the fallback
fallbackSplitSegments(text, segTerm, releaseChar) ==
    LET end == fallbackSplitSegmentsLoop(text, segTerm, releaseChar, ScanStart, 1, Len(text))
    IN  IF trim(end.cur) # <<>> THEN Append(end.tokens, trim(end.cur)) ELSE end.tokens

\* The body of the loop of the fallback's splitElements
fallbackSplitElementsStep(st, ch, sep, releaseChar) ==
    IF st.released
    THEN [st EXCEPT !.cur = Append(@, ch), !.released = FALSE]
    ELSE IF ch = releaseChar
    THEN [st EXCEPT !.released = TRUE]
    ELSE IF ch = sep
    THEN [cur |-> <<>>, released |-> FALSE, tokens |-> Append(st.tokens, st.cur)]
    ELSE [st EXCEPT !.cur = Append(@, ch)]

RECURSIVE fallbackSplitElementsLoop(_, _, _, _, _, _)
fallbackSplitElementsLoop(str, sep, releaseChar, st, lo, hi) ==
    IF lo > hi THEN st
    ELSE IF lo = hi THEN fallbackSplitElementsStep(st, str[lo], sep, releaseChar)
    ELSE LET mid == (lo + hi) \div 2
             half == fallbackSplitElementsLoop(str, sep, releaseChar, st, lo, mid)
         IN  IF half.released \in BOOLEAN
             THEN fallbackSplitElementsLoop(str, sep, releaseChar, half, mid + 1, hi)
             ELSE half

\* splitElements of the fallback
fallbackSplitElements(str, sep, releaseChar) ==
    LET end == fallbackSplitElementsLoop(str, sep, releaseChar, ScanStart, 1, Len(str))
    IN  Append(end.tokens, end.cur)

\* The loop of baselineParseAndExplain over segsRaw
fallbackSegments(text, d) ==
    LET split == fallbackSplitSegments(text, d.segTerm, d.releaseChar)
        segsRaw == SelectSeq([k \in 1..Len(split) |-> trim(stripLineBreaks(split[k]))],
                             LAMBDA s : s # <<>>)
    IN  [k \in 1..Len(segsRaw) |->
            LET raw   == segsRaw[k]
                rest  == sliceFrom(raw, 3)
                elems == IF startsWith(rest, <<d.dataSep>>) THEN sliceFrom(rest, 1) ELSE rest
                els   == fallbackSplitElements(elems, d.dataSep, d.releaseChar)
            IN  [tag |-> toUpperCase(slice(raw, 0, 3)),
                 position |-> k,
                 elements |-> [e \in 1..Len(els) |->
                                  fallbackSplitElements(els[e], d.componentSep,
                                                        d.releaseChar)]]]

\* /^[A-Z]{lo,hi}$/.test(s)
isUpperWord(s, lo, hi) ==
    /\ Len(s) >= lo /\ Len(s) <= hi
    /\ \A k \in 1..Len(s) : \E u \in 1..26 : Uppers[u] = s[k]

\* The format baselineParseAndExplain reports: the type in the UNH when it
\* is three to six capital letters, else the assumed one (<<>> when there
\* is none)
fallbackFormat(segments, assumedFormat) ==
    LET k == findTag(segments, UNH)
        type == IF k = 0 THEN <<>> ELSE firstComponentAt(segments[k], 1)
    IN  IF type # <<>> /\ isUpperWord(type, 3, 6) THEN toUpperCase(type) ELSE assumedFormat

fallbackDefaultMap ==
    << TableEntry(<<"U", "N", "H">>, <<"M", "e", "s", "s", "a", "g", "e", " ", "h", "e", "a", "d", "e", "r">>, <<>>,
         << Field(<<"U", "N", "H", "/", "0", "1", "/", "0", "1">>, <<"M", "e", "s", "s", "a", "g", "e", " ", "r", "e", "f", "e", "r", "e", "n", "c", "e", " ", "n", "u", "m", "b", "e", "r", " ", "(", "0", "0", "6", "2", ")">>,
                  <<"S", "e", "n", "d", "e", "r", "-", "a", "s", "s", "i", "g", "n", "e", "d", " ", "m", "e", "s", "s", "a", "g", "e", " ", "r", "e", "f", "e", "r", "e", "n", "c", "e">>),
            Field(<<"U", "N", "H", "/", "0", "2", "/", "0", "1">>, <<"M", "e", "s", "s", "a", "g", "e", " ", "t", "y", "p", "e", " ", "(", "0", "0", "6", "5", ")">>, <<"T", "y", "p", "e", ",", " ", "e", ".", "g", ".", ",", " ", "A", "P", "E", "R", "A", "K">>),
            Field(<<"U", "N", "H", "/", "0", "2", "/", "0", "2">>, <<"V", "e", "r", "s", "i", "o", "n", " ", "(", "0", "0", "5", "2", ")">>, <<"M", "e", "s", "s", "a", "g", "e", " ", "v", "e", "r", "s", "i", "o", "n">>),
            Field(<<"U", "N", "H", "/", "0", "2", "/", "0", "3">>, <<"R", "e", "l", "e", "a", "s", "e", " ", "(", "0", "0", "5", "4", ")">>, <<"M", "e", "s", "s", "a", "g", "e", " ", "r", "e", "l", "e", "a", "s", "e">>),
            Field(<<"U", "N", "H", "/", "0", "2", "/", "0", "4">>, <<"C", "o", "n", "t", "r", "o", "l", "l", "i", "n", "g", " ", "a", "g", "e", "n", "c", "y", " ", "(", "0", "0", "5", "1", ")">>, <<"U", "N", " ", "o", "r", " ", "o", "t", "h", "e", "r", "s">>),
            Field(<<"U", "N", "H", "/", "0", "2", "/", "0", "5">>, <<"A", "s", "s", "o", "c", "i", "a", "t", "i", "o", "n", " ", "a", "s", "s", "i", "g", "n", "e", "d", " ", "c", "o", "d", "e", " ", "(", "0", "0", "5", "7", ")">>, <<"A", "s", "s", "o", "c", "i", "a", "t", "i", "o", "n", " ", "c", "o", "d", "e">>) >>),
       TableEntry(<<"B", "G", "M">>, <<"B", "e", "g", "i", "n", "n", "i", "n", "g", " ", "o", "f", " ", "m", "e", "s", "s", "a", "g", "e">>, <<>>,
         << Field(<<"B", "G", "M", "/", "0", "1", "/", "0", "1">>, <<"D", "o", "c", "u", "m", "e", "n", "t", "/", "m", "e", "s", "s", "a", "g", "e", " ", "n", "a", "m", "e", ",", " ", "c", "o", "d", "e", "d", " ", "(", "1", "0", "0", "1", ")">>,
                  <<"I", "d", "e", "n", "t", "i", "f", "i", "e", "s", " ", "d", "o", "c", "u", "m", "e", "n", "t", "/", "m", "e", "s", "s", "a", "g", "e">>),
            Field(<<"B", "G", "M", "/", "0", "2", "/", "0", "1">>, <<"D", "o", "c", "u", "m", "e", "n", "t", "/", "m", "e", "s", "s", "a", "g", "e", " ", "n", "u", "m", "b", "e", "r", " ", "(", "1", "0", "0", "4", ")">>, <<"D", "o", "c", "u", "m", "e", "n", "t", " ", "i", "d", "e", "n", "t", "i", "f", "i", "e", "r">>),
            Field(<<"B", "G", "M", "/", "0", "3", "/", "0", "1">>, <<"M", "e", "s", "s", "a", "g", "e", " ", "f", "u", "n", "c", "t", "i", "o", "n", ",", " ", "c", "o", "d", "e", "d", " ", "(", "1", "2", "2", "5", ")">>,
                  <<"F", "u", "n", "c", "t", "i", "o", "n", " ", "o", "f", " ", "t", "h", "e", " ", "m", "e", "s", "s", "a", "g", "e">>) >>),
       TableEntry(<<"D", "T", "M">>, <<"D", "a", "t", "e", "/", "t", "i", "m", "e", "/", "p", "e", "r", "i", "o", "d">>, <<>>,
         << Field(<<"D", "T", "M", "/", "0", "1", "/", "0", "1">>, <<"D", "a", "t", "e", "/", "t", "i", "m", "e", "/", "p", "e", "r", "i", "o", "d", " ", "q", "u", "a", "l", "i", "f", "i", "e", "r", " ", "(", "2", "0", "0", "5", ")">>,
                  <<"1", "3", "7", "=", "D", "o", "c", " ", "d", "a", "t", "e", "/", "t", "i", "m", "e", ",", " ", "1", "7", "1", "=", "R", "e", "f", "e", "r", "e", "n", "c", "e", " ", "d", "a", "t", "e", "/", "t", "i", "m", "e">>),
            Field(<<"D", "T", "M", "/", "0", "1", "/", "0", "2">>, <<"D", "a", "t", "e", "/", "t", "i", "m", "e", "/", "p", "e", "r", "i", "o", "d", " ", "(", "2", "3", "8", "0", ")">>, <<"V", "a", "l", "u", "e", " ", "p", "e", "r", " ", "2", "3", "7", "9">>),
            Field(<<"D", "T", "M", "/", "0", "1", "/", "0", "3">>, <<"F", "o", "r", "m", "a", "t", " ", "q", "u", "a", "l", "i", "f", "i", "e", "r", " ", "(", "2", "3", "7", "9", ")">>,
                  <<"2", "0", "3", "=", "C", "C", "Y", "Y", "M", "M", "D", "D", "H", "H", "M", "M", ",", " ", "3", "0", "3", "=", "Y", "Y", "M", "M", "D", "D", "H", "H", "M", "M">>) >>),
       TableEntry(<<"R", "F", "F">>, <<"R", "e", "f", "e", "r", "e", "n", "c", "e">>, <<>>,
         << Field(<<"R", "F", "F", "/", "0", "1", "/", "0", "1">>, <<"R", "e", "f", "e", "r", "e", "n", "c", "e", " ", "q", "u", "a", "l", "i", "f", "i", "e", "r", " ", "(", "1", "1", "5", "3", ")">>,
                  <<"O", "N", "=", "O", "r", "d", "e", "r", ",", " ", "T", "N", "=", "T", "r", "a", "n", "s", "a", "c", "t", "i", "o", "n", ",", " ", "A", "C", "E", "=", "A", "c", "c", "o", "u", "n", "t">>),
            Field(<<"R", "F", "F", "/", "0", "1", "/", "0", "2">>, <<"R", "e", "f", "e", "r", "e", "n", "c", "e", " ", "n", "u", "m", "b", "e", "r", " ", "(", "1", "1", "5", "4", ")">>, <<"R", "e", "f", "e", "r", "e", "n", "c", "e", " ", "i", "d", "e", "n", "t", "i", "f", "i", "e", "r">>),
            Field(<<"R", "F", "F", "/", "0", "1", "/", "0", "3">>, <<"L", "i", "n", "e", " ", "n", "u", "m", "b", "e", "r", " ", "(", "1", "1", "5", "6", ")">>, <<"R", "e", "l", "a", "t", "e", "d", " ", "l", "i", "n", "e", " ", "n", "u", "m", "b", "e", "r">>) >>),
       TableEntry(<<"N", "A", "D">>, <<"N", "a", "m", "e", " ", "a", "n", "d", " ", "a", "d", "d", "r", "e", "s", "s">>, <<>>,
         << Field(<<"N", "A", "D", "/", "0", "1", "/", "0", "1">>, <<"P", "a", "r", "t", "y", " ", "f", "u", "n", "c", "t", "i", "o", "n", " ", "q", "u", "a", "l", "i", "f", "i", "e", "r", " ", "(", "3", "0", "3", "5", ")">>,
                  <<"M", "S", "=", "S", "e", "n", "d", "e", "r", ",", " ", "M", "R", "=", "R", "e", "c", "i", "p", "i", "e", "n", "t">>),
            Field(<<"N", "A", "D", "/", "0", "2", "/", "0", "1">>, <<"P", "a", "r", "t", "y", " ", "i", "d", " ", "(", "3", "0", "3", "9", ")">>, <<"P", "a", "r", "t", "y", " ", "i", "d", "e", "n", "t", "i", "f", "i", "e", "r">>),
            Field(<<"N", "A", "D", "/", "0", "2", "/", "0", "2">>, <<"C", "o", "d", "e", " ", "l", "i", "s", "t", " ", "q", "u", "a", "l", "i", "f", "i", "e", "r", " ", "(", "1", "1", "3", "1", ")">>, <<"Q", "u", "a", "l", "i", "f", "i", "e", "r", " ", "f", "o", "r", " ", "c", "o", "d", "e", " ", "l", "i", "s", "t">>),
            Field(<<"N", "A", "D", "/", "0", "2", "/", "0", "3">>, <<"C", "o", "d", "e", " ", "l", "i", "s", "t", " ", "a", "g", "e", "n", "c", "y", " ", "(", "3", "0", "5", "5", ")">>, <<"e", ".", "g", ".", ",", " ", "2", "9", "3">>) >>),
       TableEntry(<<"U", "N", "B">>, <<"I", "n", "t", "e", "r", "c", "h", "a", "n", "g", "e", " ", "h", "e", "a", "d", "e", "r">>, <<>>,
         << Field(<<"U", "N", "B", "/", "0", "1", "/", "0", "1">>, <<"S", "y", "n", "t", "a", "x", " ", "i", "d", " ", "(", "0", "0", "0", "1", ")">>, <<"U", "N", "O", "C", " ", "e", "t", "c", ".">>),
            Field(<<"U", "N", "B", "/", "0", "1", "/", "0", "2">>, <<"S", "y", "n", "t", "a", "x", " ", "v", "e", "r", "s", "i", "o", "n", " ", "(", "0", "0", "0", "2", ")">>, <<"V", "e", "r", "s", "i", "o", "n", " ", "o", "f", " ", "s", "y", "n", "t", "a", "x">>),
            Field(<<"U", "N", "B", "/", "0", "2", "/", "0", "1">>, <<"S", "e", "n", "d", "e", "r", " ", "i", "d", " ", "(", "0", "0", "0", "4", ")">>, <<"I", "n", "t", "e", "r", "c", "h", "a", "n", "g", "e", " ", "s", "e", "n", "d", "e", "r">>),
            Field(<<"U", "N", "B", "/", "0", "2", "/", "0", "2">>, <<"S", "e", "n", "d", "e", "r", " ", "q", "u", "a", "l", "i", "f", "i", "e", "r", " ", "(", "0", "0", "0", "7", ")">>, <<"Q", "u", "a", "l", "i", "f", "i", "e", "r">>),
            Field(<<"U", "N", "B", "/", "0", "3", "/", "0", "1">>, <<"R", "e", "c", "i", "p", "i", "e", "n", "t", " ", "i", "d", " ", "(", "0", "0", "1", "0", ")">>, <<"I", "n", "t", "e", "r", "c", "h", "a", "n", "g", "e", " ", "r", "e", "c", "i", "p", "i", "e", "n", "t">>),
            Field(<<"U", "N", "B", "/", "0", "3", "/", "0", "2">>, <<"R", "e", "c", "i", "p", "i", "e", "n", "t", " ", "q", "u", "a", "l", "i", "f", "i", "e", "r", " ", "(", "0", "0", "0", "7", ")">>, <<"Q", "u", "a", "l", "i", "f", "i", "e", "r">>),
            Field(<<"U", "N", "B", "/", "0", "4", "/", "0", "1">>, <<"D", "a", "t", "e", " ", "(", "0", "0", "1", "7", ")">>, <<"Y", "Y", "M", "M", "D", "D", "/", "C", "C", "Y", "Y", "M", "M", "D", "D">>),
            Field(<<"U", "N", "B", "/", "0", "4", "/", "0", "2">>, <<"T", "i", "m", "e", " ", "(", "0", "0", "1", "9", ")">>, <<"H", "H", "M", "M">>),
            Field(<<"U", "N", "B", "/", "0", "5", "/", "0", "1">>, <<"I", "n", "t", "e", "r", "c", "h", "a", "n", "g", "e", " ", "c", "o", "n", "t", "r", "o", "l", " ", "r", "e", "f", " ", "(", "0", "0", "2", "0", ")">>, <<"C", "o", "n", "t", "r", "o", "l", " ", "r", "e", "f", "e", "r", "e", "n", "c", "e">>) >>),
       TableEntry(<<"U", "N", "T">>, <<"M", "e", "s", "s", "a", "g", "e", " ", "t", "r", "a", "i", "l", "e", "r">>, <<>>,
         << Field(<<"U", "N", "T", "/", "0", "1", "/", "0", "1">>, <<"S", "e", "g", "m", "e", "n", "t", " ", "c", "o", "u", "n", "t", " ", "(", "0", "0", "7", "4", ")">>, <<"C", "o", "u", "n", "t", " ", "i", "n", "c", "l", ".", " ", "U", "N", "H", " ", "a", "n", "d", " ", "U", "N", "T">>),
            Field(<<"U", "N", "T", "/", "0", "2", "/", "0", "1">>, <<"M", "e", "s", "s", "a", "g", "e", " ", "r", "e", "f", " ", "(", "0", "0", "6", "2", ")">>, <<"M", "u", "s", "t", " ", "m", "a", "t", "c", "h", " ", "U", "N", "H", " ", "r", "e", "f">>) >>),
       TableEntry(<<"U", "N", "Z">>, <<"I", "n", "t", "e", "r", "c", "h", "a", "n", "g", "e", " ", "t", "r", "a", "i", "l", "e", "r">>, <<>>,
         << Field(<<"U", "N", "Z", "/", "0", "1", "/", "0", "1">>, <<"M", "e", "s", "s", "a", "g", "e", "/", "g", "r", "o", "u", "p", " ", "c", "o", "u", "n", "t", " ", "(", "0", "0", "3", "6", ")">>,
                  <<"N", "u", "m", "b", "e", "r", " ", "o", "f", " ", "m", "e", "s", "s", "a", "g", "e", "s", "/", "g", "r", "o", "u", "p", "s">>),
            Field(<<"U", "N", "Z", "/", "0", "2", "/", "0", "1">>, <<"I", "n", "t", "e", "r", "c", "h", "a", "n", "g", "e", " ", "c", "o", "n", "t", "r", "o", "l", " ", "r", "e", "f", " ", "(", "0", "0", "2", "0", ")">>,
                  <<"M", "u", "s", "t", " ", "m", "a", "t", "c", "h", " ", "U", "N", "B", " ", "c", "o", "n", "t", "r", "o", "l", " ", "r", "e", "f">>) >>) >>

fallbackQualifiers ==
    [DTM |-> << Code(<<"1", "3", "7">>, <<"D", "o", "c", "u", "m", "e", "n", "t", "/", "m", "e", "s", "s", "a", "g", "e", " ", "d", "a", "t", "e", "/", "t", "i", "m", "e">>),
                Code(<<"1", "7", "1">>, <<"R", "e", "f", "e", "r", "e", "n", "c", "e", " ", "d", "a", "t", "e", "/", "t", "i", "m", "e">>) >>,
     RFF |-> << Code(<<"O", "N">>, <<"O", "r", "d", "e", "r", " ", "n", "u", "m", "b", "e", "r">>),
                Code(<<"T", "N">>, <<"T", "r", "a", "n", "s", "a", "c", "t", "i", "o", "n", "/", "r", "e", "f", "e", "r", "e", "n", "c", "e", " ", "n", "u", "m", "b", "e", "r">>),
                Code(<<"A", "C", "E">>, <<"R", "e", "f", "e", "r", "e", "n", "c", "e", " ", "(", "A", "C", "E", ")">>),
                Code(<<"A", "G", "O">>, <<"A", "g", "r", "e", "e", "m", "e", "n", "t", "/", "o", "r", "d", "e", "r", " ", "r", "e", "f", "e", "r", "e", "n", "c", "e">>) >>]

\* getFieldMeta of the fallback: m.fields.find(f => f.path === p2) || null
fallbackGetFieldMeta(tag, i, j) ==
    LET e == entryIndex(fallbackDefaultMap, tag) IN
    IF e = 0 THEN NoMeta
    ELSE LET p2 == tag \o <<"/">> \o pad2(i) \o <<"/">> \o pad2(j)
             found == SelectSeq(fallbackDefaultMap[e].fields, LAMBDA f : f.path = p2)
         IN  IF found = <<>> THEN NoMeta ELSE found[1]

\* explainSegment of the fallback
fallbackExplainSegment(s) ==
    [segment |-> s.tag,
     position |-> s.position,
     description |-> segDescOf(fallbackDefaultMap, s.tag),
     fields |-> Flatten([e \in 1..Len(s.elements) |->
        [c \in 1..Len(s.elements[e]) |->
            LET val == s.elements[e][c]
                meta == fallbackGetFieldMeta(s.tag, e - 1, c - 1)
                name == IF meta.name # <<>> THEN meta.name
                        ELSE <<"C", "o", "m", "p", "o", "n", "e", "n", "t", " ">> \o toDecimal(e) \o <<".">> \o toDecimal(c)
                q == trim(val)
                description ==
                    IF s.tag = DTM /\ c = 1
                    THEN withQualifier(meta.description, q, meaningIn(fallbackQualifiers.DTM, q))
                    ELSE IF s.tag = RFF /\ c = 1
                    THEN withQualifier(meta.description, q, meaningIn(fallbackQualifiers.RFF, q))
                    ELSE meta.description
            IN  [path |-> s.tag \o <<"/">> \o pad2(e - 1) \o <<"/">> \o pad2(c - 1),
                 name |-> name,
                 description |-> IF description # <<>> THEN JsString(description) ELSE JsNull,
                 value |-> val]]])]

\* baselineParseAndExplain(text, assumedFormat); format <<>> stands for an
\* undefined format property
baselineParseAndExplain(text, assumedFormat) ==
    LET d == detectDelimsFromText(text)
        segments == fallbackSegments(text, d)
    IN  [json |-> [delimiters |-> d, segments |-> segments],
         errors |-> <<>>,
         explanations |-> [segments |-> [k \in 1..Len(segments) |->
                                            fallbackExplainSegment(segments[k])]],
         format |-> fallbackFormat(segments, assumedFormat)]

CallFallback ==
    /\ out = NoCall
    /\ input.type = "string"
    /\ out' = [fn |-> "baselineParseAndExplain",
               res |-> baselineParseAndExplain(input.s, format)]
    /\ UNCHANGED <<input, format, testerVars, explainCalls>>

ParserNext ==
    \/ CallParse
    \/ CallFallback
    \/ CallDetectDelimiters
    \/ CallSplitSegments
    \/ CallSplitElements

ParserSpec == ParserInit /\ [][ParserNext]_vars

-----------------------------------------------------------------------------
(* The tool parse_and_explain_message (parseAndExplainMessage.js) *)

KNOWN ==
    { <<"A", "P", "E", "R", "A", "K">>, <<"I", "N", "V", "O", "I", "C">>, <<"O", "R", "D", "E", "R", "S">>, <<"U", "T", "I", "L", "M", "D">>, <<"M", "S", "C", "O", "N", "S">>, <<"R", "E", "M", "A", "D", "V">>, <<"Q", "U", "O", "T", "E", "S">>,
      <<"P", "A", "R", "T", "I", "N">>, <<"U", "T", "I", "L", "T", "S">>, <<"U", "I", "T", "L", "T", "S">> }

UNKNOWN == <<"U", "N", "K", "N", "O", "W", "N">>

\* s.split(sep) for a separator of one character
split(s, sep) ==
    LET at   == SelectSeq([i \in 1..Len(s) |-> i], LAMBDA i : s[i] = sep)
        cuts == <<0>> \o at \o <<Len(s) + 1>>
    IN  [k \in 1..(Len(cuts) - 1) |-> SubSeq(s, cuts[k] + 1, cuts[k + 1] - 1)]

\* /UNH[^']*/.exec(text): the match, <<>> when there is none (a match is
\* never empty)
headerMatch(text) ==
    LET starts == {k \in 1..(Len(text) - 2) : SubSeq(text, k, k + 2) = UNH} IN
    IF starts = {} THEN <<>>
    ELSE LET k == CHOOSE s \in starts : \A t \in starts : s <= t
             quotes == {q \in k..Len(text) : text[q] = "'"}
             end == IF quotes = {} THEN Len(text)
                    ELSE (CHOOSE q \in quotes : \A r \in quotes : q <= r) - 1
         IN  SubSeq(text, k, end)

\* Lines 219-226: the format read from the text when none is declared; <<>>
\* stands for a falsy fmt
inferFormat(text) ==
    LET part == headerMatch(text)
        pieces == split(part, "+")
    IN  IF part # <<>> /\ Len(pieces) >= 3 /\ pieces[3] # <<>>
        THEN toUpperCase(split(pieces[3], ":")[1])
        ELSE <<>>

\* Lines 243-250: the format read from the text before the fallback
deriveFormat(text) ==
    LET part == headerMatch(text)
        pieces == split(part, "+")
        cand == IF part # <<>> /\ Len(pieces) >= 3 THEN split(pieces[3], ":")[1] ELSE <<>>
    IN  IF cand # <<>> THEN toUpperCase(cand) ELSE <<>>

\* The values a generated parser hands back, by what detectFromParsed reads
\* of them: a document of the baseline module, an object with a format
\* property, an object whose UNH elements are objects, an object with none
\* of the properties read
DocumentValue(doc) == [shape |-> "document", doc |-> doc]

DeclaringValue(fmt) == [shape |-> "declares", format |-> fmt]

ObjectElementsValue == [shape |-> "objectElements"]

BareValue == [shape |-> "bare"]

\* scanSegments of detectFromParsed, over segments whose elements are arrays
\* of strings; <<>> stands for null
scanSegments(segments) ==
    LET hits == {k \in 1..Len(segments) : toUpperCase(segments[k].tag) = UNH} IN
    IF hits = {} THEN <<>>
    ELSE LET unh == segments[CHOOSE k \in hits : \A h \in hits : k <= h]
             first == firstComponentAt(unh, 1)
             cand == IF first # <<>> THEN first ELSE firstComponentAt(unh, 2)
             known == SelectSeq(Flatten(unh.elements), LAMBDA v : toUpperCase(v) \in KNOWN)
         IN  IF isUpperWord(cand, 3, 8) THEN toUpperCase(cand)
             ELSE IF known # <<>> THEN toUpperCase(known[1])
             ELSE <<>>

\* detectFromParsed: what it returns (<<>> for null), or that it threw; the
\* loop over unh.elements throws a TypeError on a component that is not
\* iterable
detectFromParsed(parsed) ==
    IF parsed.shape = "declares" /\ parsed.format # <<>>
    THEN Returned(toUpperCase(parsed.format))
    ELSE IF parsed.shape = "document" THEN Returned(scanSegments(parsed.doc.json.segments))
    ELSE IF parsed.shape = "objectElements" THEN Thrown(<<"c", "o", "m", "p", " ", "i", "s", " ", "n", "o", "t", " ", "i", "t", "e", "r", "a", "b", "l", "e">>)
    ELSE Returned(<<>>)

\* What may be found at artifacts/<fmt>/parser.js
ArtifactKinds ==
    { "absent", "unloadable", "noExports", "baseline", "parseThrows", "explainThrows",
      "declares", "objectElements", "bare" }

\* mod.parseEdifactToJson(text) of the parser found
generatedParse(kind, text, fmt) ==
    IF kind = "baseline"
    THEN LET r == parseEdifactToJson(JsString(text), fmt) IN
         IF r.threw THEN Thrown(r.message)
         ELSE Returned(DocumentValue([json |-> r.json, errors |-> r.errors]))
    ELSE IF kind = "parseThrows" THEN Thrown(<<"N", "O", "_", "S", "E", "G", "M", "E", "N", "T", "S", "_", "F", "O", "U", "N", "D">>)
    ELSE IF kind = "declares" THEN Returned(DeclaringValue(<<"I", "n", "v", "o", "i", "c">>))
    ELSE IF kind = "objectElements" THEN Returned(ObjectElementsValue)
    ELSE Returned(BareValue)

\* mod.explain(parsed) of the parser found
generatedExplain(kind, parsed) ==
    IF kind = "baseline" THEN Returned(DocumentValue(explain(parsed.doc, JsUndefined).returned))
    ELSE IF kind = "explainThrows" THEN Thrown(<<"C", "a", "n", "n", "o", "t", " ", "r", "e", "a", "d", " ", "p", "r", "o", "p", "e", "r", "t", "i", "e", "s", " ", "o", "f", " ", "u", "n", "d", "e", "f", "i", "n", "e", "d">>)
    ELSE Returned(parsed)

\* f || 'UNKNOWN'
orUnknown(f) == IF f # <<>> THEN f ELSE UNKNOWN

\* a || b
orElse(a, b) == IF a # <<>> THEN a ELSE b

\* Texts the tool is called with
ToolTexts ==
    { <<>>, SampleMessage, LinesMessage,
      <<"B", "G", "M", "+", "3", "1", "2", "+", "X", "'">>,
      <<"U", "N", "H", "+", "1", "'">>,
      <<"U", "N", "H", "+", "1", "+", ":", "D", "'">>,
      <<"U", "N", "H", "+", "1", "+", "A", "b", ":", "D", "'", "U", "N", "T", "+", "2", "+", "1", "'">>,
      <<"u", "n", "h", "+", "1", "+", "a", "p", "e", "r", "a", "k", ":", "D", "'">>,
      <<"U", "N", "H", "+", "1", "+", "X", "+", "A", "P", "E", "R", "A", "K", "'">>,
      <<"U", "N", "A", ":", "+", ".", "?", " ", "'", "U", "N", "H", "+", "1", "+", "U", "T", "I", "L", "M", "D", ":", "D", "'">> }

DeclaredFormats == {<<>>, APERAK, <<"u", "t", "i", "l", "m", "d">>}

NoLocals == [fn |-> "parse_and_explain_message", fmt |-> <<>>, used |-> "none"]

ToolInit ==
    /\ input \in {JsString(t) : t \in ToolTexts}
    /\ format \in DeclaredFormats
    /\ moduleKind \in ArtifactKinds
    /\ pc = "infer"
    /\ out = NoLocals
    /\ calls = <<>>
    /\ ret = NoReturn
    /\ samples = <<>>
    /\ idx = 0
    /\ results = <<>>
    /\ explainCalls = <<>>

\* Lines 218-227: the declared format, else the one read from the text
InferFormat ==
    /\ pc = "infer"
    /\ \E fmt \in {IF format # <<>> THEN format ELSE inferFormat(input.s)} :
           /\ out' = [out EXCEPT !.fmt = fmt]
           /\ pc' = IF fmt # <<>> THEN "load" ELSE "fallback"
    /\ UNCHANGED <<input, format, moduleKind, calls, ret, samples, idx, results,
                   explainCalls>>

\* Lines 228-232: access and import the parser, look at its exports; what
\* is thrown is caught at 238
LoadGenerated ==
    /\ pc = "load"
    /\ pc' = IF moduleKind \in {"absent", "unloadable", "noExports"}
             THEN "fallback" ELSE "call"
    /\ UNCHANGED <<input, format, moduleKind, out, calls, ret, samples, idx, results,
                   explainCalls>>

\* Lines 233-240: parse, explain, detect the format and return; what is
\* thrown is caught at 238
CallGenerated ==
    /\ pc = "call"
    /\ \E parsed \in {generatedParse(moduleKind, input.s, out.fmt)} :
       \E explained \in (IF parsed.threw THEN {NotCalled}
                         ELSE {generatedExplain(moduleKind, parsed.value)}) :
       \E first \in (IF parsed.threw \/ explained.threw THEN {NotCalled}
                     ELSE {detectFromParsed(parsed.value)}) :
       \E second \in (IF parsed.threw \/ explained.threw \/ first.threw
                         THEN {NotCalled}
                      ELSE IF first.value # <<>> THEN {NotCalled}
                      ELSE {detectFromParsed(explained.value)}) :
           LET parseCall == [fn |-> "parseEdifactToJson", threw |-> parsed.threw]
               explainCall == [fn |-> "explain", threw |-> explained.threw]
               firstCall == [fn |-> "detectFromParsed", threw |-> first.threw]
               secondCall == [fn |-> "detectFromParsed", threw |-> second.threw]
               made == IF parsed.threw THEN <<parseCall>>
                       ELSE IF explained.threw THEN <<parseCall, explainCall>>
                       ELSE IF second = NotCalled
                       THEN <<parseCall, explainCall, firstCall>>
                       ELSE <<parseCall, explainCall, firstCall, secondCall>>
               caught == made[Len(made)].threw
               fmt2 == IF Len(made) = 3 THEN first.value ELSE orElse(second.value, out.fmt)
           IN  /\ calls' = made
               /\ IF caught
                  THEN /\ pc' = "fallback"
                       /\ UNCHANGED <<out, ret>>
                  ELSE /\ pc' = "returned"
                       /\ out' = [out EXCEPT !.used = "generated"]
                       /\ ret' = [returned |-> TRUE, explained |-> explained.value,
                                  format |-> orUnknown(fmt2)]
    /\ UNCHANGED <<input, format, moduleKind, samples, idx, results, explainCalls>>

\* Lines 242-252: the baseline fallback
RunFallback ==
    /\ pc = "fallback"
    /\ \E fmt \in {IF out.fmt = <<>> THEN deriveFormat(input.s) ELSE out.fmt} :
       \E explained \in {baselineParseAndExplain(input.s, fmt)} :
           /\ out' = [out EXCEPT !.fmt = fmt, !.used = "baseline"]
           /\ ret' = [returned |-> TRUE, explained |-> explained,
                      format |-> orUnknown(orElse(explained.format, fmt))]
    /\ pc' = "returned"
    /\ UNCHANGED <<input, format, moduleKind, calls, samples, idx, results, explainCalls>>

ToolNext ==
    \/ InferFormat
    \/ LoadGenerated
    \/ CallGenerated
    \/ RunFallback

ToolSpec == ToolInit /\ [][ToolNext]_vars

\* C27: for every non-empty text, the fallback of parse_and_explain_message
\* tokenizes as the generated baseline module does: the delimiters and the
\* segments (tags, positions, elements, components) of the two are equal,
\* whatever format either is called for.
C27_FallbackTokenizesAsBaselineModule ==
    (out # NoCall /\ out.fn = "baselineParseAndExplain" /\ input.s # <<>>) =>
        \A f \in CallerFormats :
            LET module == parseEdifactToJson(input, f)
            IN  /\ ~module.threw
                /\ out.res.json.delimiters = module.json.delimiters
                /\ out.res.json.segments = module.json.segments

\* The fallback has tokenized a message with a service string advice of its
\* own and a released separator
C27_Witness ==
    /\ out # NoCall /\ out.fn = "baselineParseAndExplain"
    /\ startsWith(input.s, UNA)
    /\ out.res.json.delimiters # DefaultDelimiters
    /\ Len(out.res.json.segments) >= 2
    /\ \E k \in 1..Len(out.res.json.segments) :
           Len(out.res.json.segments[k].elements) >= 2

-----------------------------------------------------------------------------
(* Further properties of the tester, checked under Spec *)

\* C28: a happy-path entry is ok exactly when neither parse nor explain
\* threw, whether or not the parse result reported errors; and the verdict
\* is false only through an entry that is not ok, which on the happy path
\* means a call that threw, never through errors a parse result reported.
C28_HappyVerdictIgnoresReportedErrors ==
    /\ \A k \in 1..Min(Len(calls), Len(samples)) :
           /\ results[k].ok <=> ~(calls[k].parse.threw \/ calls[k].explain.threw)
           /\ (calls[k].reported /\ ~calls[k].explain.threw) => results[k].ok
    /\ (ret.returned /\ "results" \in DOMAIN ret) =>
           /\ ret.results = results
           /\ ~ret.success =>
                  \E k \in 1..Len(results) :
                      /\ ~results[k].ok
                      /\ k <= Len(samples) =>
                             (calls[k].parse.threw \/ calls[k].explain.threw)

\* The tester has returned success although the parse result of a sample
\* carried errors
C28_Witness ==
    /\ ret.returned /\ "results" \in DOMAIN ret
    /\ ret.success
    /\ \E k \in 1..Len(samples) : calls[k].reported /\ ret.results[k].ok

-----------------------------------------------------------------------------
(* Properties of parse_and_explain_message, checked under ToolSpec *)

\* The parser at artifacts/<fmt>/parser.js was found with both exports, and
\* its parse and its explain both returned
GeneratedSucceeded ==
    /\ out.fmt # <<>>
    /\ moduleKind \notin {"absent", "unloadable", "noExports"}
    /\ Len(calls) >= 2
    /\ ~calls[1].threw /\ ~calls[2].threw

FormatDetectionThrew ==
    \E k \in 1..Len(calls) : calls[k].fn = "detectFromParsed" /\ calls[k].threw

\* What the tool owes its caller whichever parser it used: a result, a
\* non-empty format, and on the fallback the result of the baseline parser
ToolReturnsExplained ==
    /\ pc \in {"infer", "load", "call", "fallback", "returned"}
    /\ pc = "returned" => ret.returned
    /\ ret.returned =>
           /\ out.used \in {"generated", "baseline"}
           /\ ret.format # <<>>
           /\ out.used = "generated" =>
                  ret.explained =
                      generatedExplain(moduleKind,
                          generatedParse(moduleKind, input.s, out.fmt).value).value
           /\ out.used = "baseline" =>
                  /\ ret.explained = baselineParseAndExplain(input.s, out.fmt)
                  /\ ret.format = orUnknown(orElse(ret.explained.format, out.fmt))
                  /\ (out.fmt = <<>> /\ ret.explained.format = <<>>) => ret.format = UNKNOWN

\* C21: the tool always returns an explained result with a
\* non-empty format; the generated parser is used exactly when its file
\* exists, exports both functions and both calls succeed, and the baseline
\* parser in every other case.
C21_GeneratedParserUsedWhenItSucceeds ==
    /\ ToolReturnsExplained
    /\ ret.returned => (out.used = "generated" <=> GeneratedSucceeded)

\* What the code does: the generated parser is used exactly when, in
\* addition, detecting the format in what it returned does not throw
GeneratedUsedUnlessDetectionThrows ==
    /\ ToolReturnsExplained
    /\ ret.returned =>
           (out.used = "generated" <=> (GeneratedSucceeded /\ ~FormatDetectionThrew))

====
